---- MODULE Spec2Model ----
(***************************************************************************)
(* A model of the allocator of src/src/malloc.c: malloc_, free_, calloc_   *)
(* and realloc_ over segregated, sorted, circular doubly-linked free lists *)
(* with boundary tags, and a registry of the regions obtained from mmap.   *)
(*                                                                         *)
(* Memory is modelled byte by byte.  Block metadata is stored in these     *)
(* bytes exactly where the structures of the source put it, so that client *)
(* data, stale links, headers and footers overlay one another as they do   *)
(* in the program.  size_t values that reach the facade are 8-byte vectors *)
(* (least significant byte first), with C's modular arithmetic.            *)
(*                                                                         *)
(* An operator that uses an operand more than once names its value first,  *)
(* as C evaluates an argument once: Only({e(x) : x \in {operand}}).        *)
(***************************************************************************)
EXTENDS Integers, Sequences, FiniteSets, TLC

-----------------------------------------------------------------------------
(* Bounds of the model.                                                    *)

\* log2 of sysconf(_SC_PAGESIZE): the page size of the modelled machine.
Log2PageSize == 6
\* The page source hands out regions from this many MMAP_UNIT-sized slots.
NumSlots == 3
\* log2 of the capacity of the mapping registry (LOG2_NUM_MAPPINGS, scaled).
Log2NumMappings == 1
\* The number of facade calls in one behaviour.
MaxCalls == 3

-----------------------------------------------------------------------------
(* Program constants.                                                      *)

\* sizeof (size_t), sizeof (uintptr_t), sizeof (uint64_t).
SIZE_BYTES == 8
MEM_UNIT == 8
\* header_t: the word {size:48, mapping:15, free:1}, then next, then prev.
SIZE_FIELD_BYTES == 6
MAPPING_FIELD_BITS == 15
OFFSET_NEXT == 8
OFFSET_PREV == 16
HEADER_SIZE == 24
METADATA_OFFSET == 8
FOOTER_SIZE == 8
MIN_ALLOC == HEADER_SIZE + FOOTER_SIZE
NUM_BUCKETS == 166
PageSize == 2^Log2PageSize
MMAP_UNIT == (2^5) * PageSize
\* 1 << LOG2_NUM_MAPPINGS, the number of rows of `mappings`.
NumMappings == 2^Log2NumMappings
NULL == 0
EINVAL == "EINVAL"
ENOMEM == "ENOMEM"
\* (void*) -1
MAP_FAILED == 0 - 1

\* The address of the static array `buckets`, and the address range the page
\* source hands regions out of (it begins at a multiple of MMAP_UNIT above the
\* static data).
BucketsAddr == 8
HeapBase == (((BucketsAddr + NUM_BUCKETS * HEADER_SIZE) \div MMAP_UNIT) + 1) * MMAP_UNIT
HeapSize == NumSlots * MMAP_UNIT
HeapTop == HeapBase + HeapSize

\* The one element of a singleton set.
Only(S) == CHOOSE r \in S : TRUE

-----------------------------------------------------------------------------
(* Unsigned machine arithmetic.  A value is a sequence of bytes, least     *)
(* significant first; its length is its width: SIZE_BYTES for size_t,      *)
(* uintptr_t and uint64_t, and wider where a result is wanted without      *)
(* wrap-around.                                                            *)

\* The bytes b[1..w] as a sequence.
Bytes(b, w) == SubSeq(b, 1, w)

\* The vector of w bytes of the natural number n0 (a TLC integer).
BVW(n0, w) ==
    Only({Bytes([i \in 1..w |-> IF i <= 4 THEN (n \div (256^(i-1))) % 256 ELSE 0], w) :
          n \in {n0}})
BV(n) == BVW(n, SIZE_BYTES)

\* v0 is a number below 2^31, the numbers TLC's integers hold.
Fits(v0) ==
    \E v \in {v0} : \A i \in 1..Len(v) : (i > 4 => v[i] = 0) /\ (i = 4 => v[i] < 128)

\* The natural number of a vector that Fits.
Val(v0) ==
    Only({v[1] + 256 * v[2] + 65536 * v[3] + 16777216 * v[4] : v \in {v0}})

\* Zero extension (or truncation) to w bytes.
Ext(v0, w) ==
    Only({Bytes([i \in 1..w |-> IF i <= Len(v) THEN v[i] ELSE 0], w) : v \in {v0}})

\* The bytes i.. of a + b + carry (a and b are values, not expressions).
RECURSIVE AddFrom(_, _, _, _)
AddFrom(a, b, i, carry) ==
    IF i > Len(a) THEN <<>>
    ELSE Only({<<s % 256>> \o AddFrom(a, b, i + 1, s \div 256) :
               s \in {a[i] + b[i] + carry}})
\* a + b modulo 2^width.
Add(a0, b0) == Only({AddFrom(a, b, 1, 0) : a \in {a0}, b \in {b0}})

\* x & y for two bytes.
AndByte(x, y) ==
    LET bit(k) == ((x \div (2^k)) % 2) * ((y \div (2^k)) % 2) * (2^k)
    IN  bit(0) + bit(1) + bit(2) + bit(3) + bit(4) + bit(5) + bit(6) + bit(7)

\* ~a and a & b.
Not(a0) == Only({Bytes([i \in 1..Len(a) |-> 255 - a[i]], Len(a)) : a \in {a0}})
And(a0, b0) ==
    Only({Bytes([i \in 1..Len(a) |-> AndByte(a[i], b[i])], Len(a)) :
          a \in {a0}, b \in {b0}})
\* a - b modulo 2^width.
Sub(a0, b0) == Only({AddFrom(a, b, 1, 1) : a \in {a0}, b \in {Not(b0)}})

\* a < b on the bytes i, i-1, ..., 1 (a and b are values).
RECURSIVE LtFrom(_, _, _)
LtFrom(a, b, i) ==
    IF i = 0 THEN FALSE
    ELSE IF a[i] # b[i] THEN a[i] < b[i]
    ELSE LtFrom(a, b, i - 1)
\* a < b, a <= b, a = 0.
Lt(a0, b0) == \E a \in {a0}, b \in {b0} : LtFrom(a, b, Len(a))
Le(a, b) == ~Lt(b, a)
IsZero(a0) == \E a \in {a0} : \A i \in 1..Len(a) : a[i] = 0

\* a >> k and a << k, for 0 <= k < 8 * width.
Shr(a0, k0) ==
    Only({Bytes([i \in 1..Len(a) |->
                    ((IF i + q <= Len(a) THEN a[i + q] ELSE 0) \div (2^r))
                    + ((IF i + q + 1 <= Len(a) THEN a[i + q + 1] ELSE 0) % (2^r))
                          * (2^(8 - r))],
                Len(a)) :
          a \in {a0}, q \in {k0 \div 8}, r \in {k0 % 8}})
Shl(a0, k0) ==
    Only({Bytes([i \in 1..Len(a) |->
                    (((IF i - q >= 1 THEN a[i - q] ELSE 0) * (2^r)) % 256)
                    + ((IF i - q - 1 >= 1 THEN a[i - q - 1] ELSE 0) \div (2^(8 - r)))],
                Len(a)) :
          a \in {a0}, q \in {k0 \div 8}, r \in {k0 % 8}})

\* The sum of a[i] * b[j] over i + j = k + 1 (one column of the long product).
RECURSIVE Column(_, _, _, _)
Column(a, b, k, i) ==
    IF i > k THEN 0 ELSE a[i] * b[k + 1 - i] + Column(a, b, k, i + 1)

\* The bytes k.. of a * b (a and b are values).
RECURSIVE MulFrom(_, _, _, _)
MulFrom(a, b, k, carry) ==
    IF k > Len(a) THEN <<>>
    ELSE Only({<<s % 256>> \o MulFrom(a, b, k + 1, s \div 256) :
               s \in {Column(a, b, k, 1) + carry}})
\* a * b modulo 2^width.
Mul(a0, b0) == Only({MulFrom(a, b, 1, 0) : a \in {a0}, b \in {b0}})

\* One step of binary long division: the pair <<remainder, quotient>> after
\* bit number n (0 the least significant) of the dividend a is brought down
\* to the pair rq (a, b and rq are values).
DivStep(a, b, n, rq) ==
    Only({IF Le(b, r) THEN <<Sub(r, b), Add(q, BVW(1, Len(a)))>> ELSE <<r, q>> :
          r \in {Add(Shl(rq[1], 1),
                     BVW((a[(n \div 8) + 1] \div (2^(n % 8))) % 2, Len(a)))},
          q \in {Shl(rq[2], 1)}})

\* The division steps for the bits n, n-1, ..., n-cnt+1 of the dividend.
RECURSIVE DivBits(_, _, _, _, _)
DivBits(a, b, n, cnt, rq0) ==
    IF cnt = 0 THEN rq0
    ELSE Only({DivStep(a, b, n - cnt + 1, rq) : rq \in {DivBits(a, b, n, cnt - 1, rq0)}})

\* The division steps for the bytes i, i-1, ..., 1 of the dividend.
RECURSIVE DivBytes(_, _, _, _)
DivBytes(a, b, i, rq0) ==
    IF i = 0 THEN rq0
    ELSE Only({DivBytes(a, b, i - 1, rq) : rq \in {DivBits(a, b, 8 * i - 1, 8, rq0)}})

\* Long division of vectors of one width: the quotient.
DivLong(a0, b0) ==
    Only({DivBytes(a, b, Len(a), <<BVW(0, Len(a)), BVW(0, Len(a))>>)[2] :
          a \in {a0}, b \in {b0}})

\* Short division by a divisor d below 2^23: the quotient bytes
\* i, i-1, ..., 1 of a, given the remainder r of the bytes above them.
RECURSIVE DivShort(_, _, _, _)
DivShort(a, d, i, r) ==
    IF i = 0 THEN <<>>
    ELSE Only({Append(DivShort(a, d, i - 1, n % d), n \div d) :
               n \in {r * 256 + a[i]}})
\* a / b, for b # 0 (in the long division the remainder is kept one byte
\* wider than a).
Div(a0, b0) ==
    Only({IF b[3] < 128 /\ \A i \in 4..Len(b) : b[i] = 0
          THEN DivShort(a, b[1] + 256 * b[2] + 65536 * b[3], Len(a), 0)
          ELSE Ext(DivLong(Ext(a, Len(a) + 1), Ext(b, Len(a) + 1)), Len(a)) :
          a \in {a0}, b \in {b0}})

SIZE_MAX == Not(BV(0))
\* 2^64 - k, the size_t value of (size_t) -k.
Neg(k) == Sub(BV(0), BV(k))

-----------------------------------------------------------------------------
(* Memory.  `mem` holds the bytes of the address range [HeapBase, HeapTop), *)
(* zero until written (a fresh anonymous mapping reads as zero).  The       *)
(* sentinels of the static array `buckets` are kept as records; a pointer   *)
(* to one is BucketsAddr + index * HEADER_SIZE.                             *)

Zeros == Bytes([i \in 1..HeapSize |-> 0], HeapSize)

\* The byte at address a of the memory m (m and a are values).
Byte(m, a) == m[a - HeapBase + 1]

\* The n bytes at address a, and memory after the bytes v are stored at a.
Load(m0, a0, n) == Only({SubSeq(m, a - HeapBase + 1, a - HeapBase + n) : m \in {m0}, a \in {a0}})
Store(m0, a0, v0) ==
    Only({SubSeq(m, 1, a - HeapBase) \o v \o SubSeq(m, a - HeapBase + Len(v) + 1, Len(m)) :
          m \in {m0}, a \in {a0}, v \in {v0}})

\* Fault injection: memset0 that writes nothing.
memset0_skipped(m0, dst0, n0) == m0
\* memset(dst, 0, n); memcpy(dst, src, n) follows.
memset0(m0, dst0, n0) ==
    Only({SubSeq(m, 1, dst - HeapBase) \o SubSeq(Zeros, 1, n)
              \o SubSeq(m, dst - HeapBase + n + 1, Len(m)) :
          m \in {m0}, dst \in {dst0}, n \in {n0}})
\* Fault injection: memcpy that copies nothing.
memcpy_skipped(m0, dst0, src0, n0) == m0
memcpy(m0, dst0, src0, n0) ==
    Only({SubSeq(m, 1, dst - HeapBase) \o SubSeq(m, src - HeapBase + 1, src - HeapBase + n)
              \o SubSeq(m, dst - HeapBase + n + 1, Len(m)) :
          m \in {m0}, dst \in {dst0}, src \in {src0}, n \in {n0}})

\* p points to a header_t of `buckets` (p is a value).
IsSentinel(p) == p >= BucketsAddr /\ p < BucketsAddr + NUM_BUCKETS * HEADER_SIZE
SentinelIndex(p) == (p - BucketsAddr) \div HEADER_SIZE
BucketAddr(i) == BucketsAddr + i * HEADER_SIZE

\* Reads of the fields of the header_t at address p.
size_of(S0, p0) ==
    Only({IF IsSentinel(p) THEN S.buckets[SentinelIndex(p)].size
          ELSE Val(Load(S.mem, p, SIZE_FIELD_BYTES)) :
          S \in {S0}, p \in {p0}})
mapping_of(S0, p0) ==
    Only({IF IsSentinel(p) THEN S.buckets[SentinelIndex(p)].mapping
          ELSE Byte(S.mem, p + 6) + 256 * (Byte(S.mem, p + 7) % 128) :
          S \in {S0}, p \in {p0}})
free_of(S0, p0) ==
    Only({IF IsSentinel(p) THEN S.buckets[SentinelIndex(p)].free
          ELSE Byte(S.mem, p + 7) \div 128 :
          S \in {S0}, p \in {p0}})
next_of(S0, p0) ==
    Only({IF IsSentinel(p) THEN S.buckets[SentinelIndex(p)].next
          ELSE Val(Load(S.mem, p + OFFSET_NEXT, SIZE_BYTES)) :
          S \in {S0}, p \in {p0}})
prev_of(S0, p0) ==
    Only({IF IsSentinel(p) THEN S.buckets[SentinelIndex(p)].prev
          ELSE Val(Load(S.mem, p + OFFSET_PREV, SIZE_BYTES)) :
          S \in {S0}, p \in {p0}})
\* The size member of the footer_t at address a.
footer_size(S, a) == Val(Load(S.mem, a, FOOTER_SIZE))

\* Writes of the fields of the header_t at address p.  A bit-field keeps the
\* low bits of the value assigned to it and leaves its neighbours alone.
set_size(S0, p0, v0) ==
    Only({IF IsSentinel(p)
          THEN [S EXCEPT !.buckets[SentinelIndex(p)].size = Val(v)]
          ELSE [S EXCEPT !.mem = Store(@, p, Bytes(v, SIZE_FIELD_BYTES))] :
          S \in {S0}, p \in {p0}, v \in {v0}})
set_mapping(S0, p0, m0) ==
    Only({IF IsSentinel(p)
          THEN [S EXCEPT !.buckets[SentinelIndex(p)].mapping = low]
          ELSE [S EXCEPT !.mem = Store(@, p + 6,
                    <<low % 256, (low \div 256) + 128 * (Byte(S.mem, p + 7) \div 128)>>)] :
          S \in {S0}, p \in {p0}, low \in {m0 % (2^MAPPING_FIELD_BITS)}})
set_free(S0, p0, f) ==
    Only({IF IsSentinel(p)
          THEN [S EXCEPT !.buckets[SentinelIndex(p)].free = f]
          ELSE [S EXCEPT !.mem = Store(@, p + 7, <<(Byte(S.mem, p + 7) % 128) + 128 * f>>)] :
          S \in {S0}, p \in {p0}})
set_next(S0, p0, q0) ==
    Only({IF IsSentinel(p)
          THEN [S EXCEPT !.buckets[SentinelIndex(p)].next = q]
          ELSE [S EXCEPT !.mem = Store(@, p + OFFSET_NEXT, BV(q))] :
          S \in {S0}, p \in {p0}, q \in {q0}})
set_prev(S0, p0, q0) ==
    Only({IF IsSentinel(p)
          THEN [S EXCEPT !.buckets[SentinelIndex(p)].prev = q]
          ELSE [S EXCEPT !.mem = Store(@, p + OFFSET_PREV, BV(q))] :
          S \in {S0}, p \in {p0}, q \in {q0}})

-----------------------------------------------------------------------------
(* The allocator.  S is the state of the process: the fields mem, buckets, *)
(* initialized, mapping_index, mappings and errno of the program, and, of  *)
(* its environment, regions (what mmap has handed out), os_calls (the mmap *)
(* calls of the facade call in progress) and hung (the call never ends).   *)
(* A function of the source that returns a pointer and changes the state   *)
(* is an operator whose value is [st |-> the state after, ret |-> pointer].*)
(* Statements that follow one another read inside out: the state a         *)
(* statement leaves is named at the right of the one that follows it.      *)

\* What the scan of the top bit yields when it never ends.
HANG == 0 - 1
\* What a shift by the full width of its operand (undefined in C) does: the
\* count is taken modulo the width, or every bit is shifted out.
UBMask == "mask"
UBZero == "zero"
ShiftOutcomes == {UBMask, UBZero}

Min(set) == CHOOSE x \in set : \A y \in set : x <= y

round_up_power_of_two(number, power) ==
    And(Add(number, BV(power - 1)), Not(BV(power - 1)))

\* Fault injection: aligned without the rounding to MEM_UNIT.
aligned_unrounded(size0) ==
    Only({IF Le(BV(MIN_ALLOC), size) THEN size ELSE BV(MIN_ALLOC) :
          size \in {Add(size0, BV(METADATA_OFFSET + FOOTER_SIZE))}})
\* Fault injection: aligned without the floor of MIN_ALLOC.
aligned_unfloored(size0) ==
    Add(round_up_power_of_two(size0, MEM_UNIT), BV(METADATA_OFFSET + FOOTER_SIZE))
aligned(size0) ==
    Only({IF Le(BV(MIN_ALLOC), size) THEN size ELSE BV(MIN_ALLOC) :
          size \in {Add(round_up_power_of_two(size0, MEM_UNIT),
                        BV(METADATA_OFFSET + FOOTER_SIZE))}})

\* Fault injection: initialize_buckets without initialized = true.
initialize_buckets_unflagged(S) ==
    [S EXCEPT !.buckets = [i \in 0..(NUM_BUCKETS - 1) |->
                              [size |-> 0, mapping |-> 0, free |-> 0,
                               next |-> BucketAddr(i), prev |-> BucketAddr(i)]] @@ <<>>]
initialize_buckets(S) ==
    [S EXCEPT !.buckets = [i \in 0..(NUM_BUCKETS - 1) |->
                              [size |-> 0, mapping |-> 0, free |-> 0,
                               next |-> BucketAddr(i), prev |-> BucketAddr(i)]] @@ <<>>,
              !.initialized = TRUE]

\* for (log2 = log2_1024; size >> (log2 + 1) > 0; log2++);
\* (size is a value).
RECURSIVE scan_top_bit(_, _, _)
scan_top_bit(size, log2, ub) ==
    IF log2 + 1 >= 8 * SIZE_BYTES
    THEN IF ub = UBZero THEN log2 ELSE HANG
    ELSE IF ~IsZero(Shr(size, log2 + 1)) THEN scan_top_bit(size, log2 + 1, ub)
    ELSE log2

\* Fault injection: bucket_index_from_size whose loop starts at log2 = 11.
bucket_index_from_size_late(size0, ub) ==
    Only({IF Lt(size, BV(1024)) THEN Val(size) \div MEM_UNIT
          ELSE Only({IF log2 = HANG THEN HANG ELSE log2 + ((1024 \div MEM_UNIT) - 10) :
                     log2 \in {scan_top_bit(size, 11, ub)}}) :
          size \in {size0}})
bucket_index_from_size(size0, ub) ==
    Only({IF Lt(size, BV(1024)) THEN Val(size) \div MEM_UNIT
          ELSE Only({IF log2 = HANG THEN HANG ELSE log2 + ((1024 \div MEM_UNIT) - 10) :
                     log2 \in {scan_top_bit(size, 10, ub)}}) :
          size \in {size0}})

\* Fault injection: remove_from_bucket without block->next->prev = block->prev.
remove_from_bucket_forward(S0, block0) ==
    Only({set_next(S, prev_of(S, block), next_of(S, block)) :
          S \in {S0}, block \in {block0}})
\* Fault injection: remove_from_bucket that leaves the links as they are.
remove_from_bucket_skipped(S0, block0) == S0
\* block->prev->next = block->next; block->next->prev = block->prev;
remove_from_bucket(S0, block0) ==
    Only({Only({set_prev(S1, next_of(S1, block), prev_of(S1, block)) :
                S1 \in {set_next(S, prev_of(S, block), next_of(S, block))}}) :
          S \in {S0}, block \in {block0}})

\* Fault injection: the block is linked before the blocks of its own size.
RECURSIVE pre_insertion_block_before(_, _, _)
pre_insertion_block_before(S, block0, size) ==
    Only({IF next_block_size = 0 \/ next_block_size >= size THEN block
          ELSE pre_insertion_block_before(S, next_of(S, block), size) :
          block \in {block0}, next_block_size \in {size_of(S, next_of(S, block0))}})
\* Fault injection: the block is linked last in the list, whatever its size.
pre_insertion_block_last(S, block0, size) == prev_of(S, block0)
\* The block after which insert_into_bucket links a block of the given size:
\* where its loop breaks (S and size are values).
RECURSIVE pre_insertion_block(_, _, _)
pre_insertion_block(S, block0, size) ==
    Only({IF next_block_size = 0 \/ next_block_size > size THEN block
          ELSE pre_insertion_block(S, next_of(S, block), size) :
          block \in {block0}, next_block_size \in {size_of(S, next_of(S, block0))}})


\* Fault injection: insert_into_bucket without block_to_insert->free = true.
insert_into_bucket_unflagged(S0, block_to_insert0, bucket0) ==
    Only({Only({Only({Only({Only({
        set_prev(S3, next_of(S3, block), block) :
        S3 \in {set_next(S2, pre, block)}}) :
        S2 \in {set_next(S1, block, next_of(S1, pre))}}) :
        S1 \in {set_prev(S, block, pre)}}) :
        pre \in {pre_insertion_block(S, bucket0, size_of(S, block))}}) :
        S \in {S0}, block \in {block_to_insert0}})
insert_into_bucket(S0, block_to_insert0, bucket0) ==
    Only({Only({Only({Only({Only({Only({
        set_free(S4, block, 1) :
        S4 \in {set_prev(S3, next_of(S3, block), block)}}) :
        S3 \in {set_next(S2, pre, block)}}) :
        S2 \in {set_next(S1, block, next_of(S1, pre))}}) :
        S1 \in {set_prev(S, block, pre)}}) :
        pre \in {pre_insertion_block(S, bucket0, size_of(S, block))}}) :
        S \in {S0}, block \in {block_to_insert0}})

insert_into_buckets(S0, block0) ==
    Only({insert_into_bucket(S, block,
              BucketAddr(bucket_index_from_size(BV(size_of(S, block)), UBZero))) :
          S \in {S0}, block \in {block0}})

\* Fault injection: update_size that leaves the footer alone.
update_size_header(S0, block0, size0) == set_size(S0, block0, size0)
\* block->size = ((footer_t*) ((uintptr_t) block + size) - 1)->size = size;
update_size(S0, block0, size0) ==
    Only({set_size([S EXCEPT !.mem = Store(@, block + Val(size) - FOOTER_SIZE, size)],
                   block, size) :
          S \in {S0}, block \in {block0}, size \in {size0}})

\* Fault injection: split_after without new_block->mapping = block->mapping.
split_after_unmapped(S0, block0, size0) ==
    Only({Only({Only({
        insert_into_buckets(S1, new_block) :
        S1 \in {update_size(S, new_block, Sub(BV(size_of(S, block)), size))}}) :
        new_block \in {block + Val(size)}}) :
        S \in {S0}, block \in {block0}, size \in {size0}})
split_after(S0, block0, size0) ==
    Only({Only({Only({
        insert_into_buckets(set_mapping(S1, new_block, mapping_of(S1, block)), new_block) :
        S1 \in {update_size(S, new_block, Sub(BV(size_of(S, block)), size))}}) :
        new_block \in {block + Val(size)}}) :
        S \in {S0}, block \in {block0}, size \in {size0}})

\* Fault injection: adjusted_block that splits only when more than MIN_ALLOC
\* bytes are left.
adjusted_block_wide(S0, block0, size0) ==
    Only({IF Le(BV(size_of(S, block)), Add(size, BV(MIN_ALLOC))) THEN S
          ELSE update_size(split_after(S, block, size), block, size) :
          S \in {S0}, block \in {block0}, size \in {size0}})
\* Fault injection: adjusted_block without update_size(block, size).
adjusted_block_unsized(S0, block0, size0) ==
    Only({IF Lt(BV(size_of(S, block)), Add(size, BV(MIN_ALLOC))) THEN S
          ELSE split_after(S, block, size) :
          S \in {S0}, block \in {block0}, size \in {size0}})
adjusted_block(S0, block0, size0) ==
    Only({IF Lt(BV(size_of(S, block)), Add(size, BV(MIN_ALLOC))) THEN S
          ELSE update_size(split_after(S, block, size), block, size) :
          S \in {S0}, block \in {block0}, size \in {size0}})

\* The first block at or after `block` in its list whose size is >= size;
\* NULL when the walk comes to the sentinel (the node of size 0).
\* (S and size are values.)
RECURSIVE first_fit(_, _, _)
first_fit(S, block0, size) ==
    Only({IF size_of(S, block) = 0 THEN NULL
          ELSE IF Le(size, BV(size_of(S, block))) THEN block
          ELSE first_fit(S, next_of(S, block), size) :
          block \in {block0}})

\* Fault injection: get_block_from_bucket without remove_from_bucket(block).
get_block_from_bucket_linked(S0, bucket, size0) ==
    Only({Only({IF block = NULL THEN [st |-> S, ret |-> NULL]
                ELSE [st |-> adjusted_block(S, block, size), ret |-> block] :
                block \in {first_fit(S, next_of(S, bucket), size)}}) :
          S \in {S0}, size \in {size0}})
get_block_from_bucket(S0, bucket, size0) ==
    Only({Only({IF block = NULL THEN [st |-> S, ret |-> NULL]
                ELSE [st |-> adjusted_block(remove_from_bucket(S, block), block, size),
                      ret |-> block] :
                block \in {first_fit(S, next_of(S, bucket), size)}}) :
          S \in {S0}, size \in {size0}})

\* Fault injection: get_block_from_buckets that takes from the last bucket
\* that yields a block.
get_block_from_buckets_last(S0, size0, ub) ==
    Only({IF first = HANG THEN [st |-> [S EXCEPT !.hung = TRUE], ret |-> NULL]
          ELSE Only({IF hits = {} THEN [st |-> S, ret |-> NULL]
                     ELSE get_block_from_bucket(
                              S, BucketAddr(CHOOSE i \in hits : \A j \in hits : j <= i), size) :
                     hits \in {{i \in first..(NUM_BUCKETS - 1) :
                                  /\ S.buckets[i].next # BucketAddr(i)
                                  /\ first_fit(S, S.buckets[i].next, size) # NULL}}}) :
          S \in {S0}, size \in {size0}, first \in {bucket_index_from_size(size0, ub)}})
\* The loop over the buckets ends at the first one that yields a block; a
\* bucket whose list is empty yields none.
get_block_from_buckets(S0, size0, ub) ==
    Only({IF first = HANG THEN [st |-> [S EXCEPT !.hung = TRUE], ret |-> NULL]
          ELSE Only({IF hits = {} THEN [st |-> S, ret |-> NULL]
                     ELSE get_block_from_bucket(S, BucketAddr(Min(hits)), size) :
                     hits \in {{i \in first..(NUM_BUCKETS - 1) :
                                  /\ S.buckets[i].next # BucketAddr(i)
                                  /\ first_fit(S, S.buckets[i].next, size) # NULL}}}) :
          S \in {S0}, size \in {size0}, first \in {bucket_index_from_size(size0, ub)}})

\* Fault injection: coalesce that does not put the merged block in a bucket.
coalesce_unlisted(S0, lower0, higher0) ==
    Only({Only({
        update_size(S2, lower, BV(size_of(S2, lower) + size_of(S2, higher))) :
        S2 \in {remove_from_bucket(remove_from_bucket(S, lower), higher)}}) :
        S \in {S0}, lower \in {lower0}, higher \in {higher0}})
coalesce(S0, lower0, higher0) ==
    Only({Only({
        insert_into_buckets(
            update_size(S2, lower, BV(size_of(S2, lower) + size_of(S2, higher))), lower) :
        S2 \in {remove_from_bucket(remove_from_bucket(S, lower), higher)}}) :
        S \in {S0}, lower \in {lower0}, higher \in {higher0}})

\* The page source.  `os` is what the kernel is prepared to do for this call:
\* refuse (MAP_FAILED), or map the region at the slot address os.  It also
\* refuses a region that does not lie in free address space.
SlotAddrs == {HeapBase + k * MMAP_UNIT : k \in 0..(NumSlots - 1)}
OsChoices == SlotAddrs \cup {MAP_FAILED}
mmap(S, size0, os) ==
    Only({IF os = MAP_FAILED \/ ~Fits(size) THEN MAP_FAILED
          ELSE IF Val(size) = 0 \/ os + Val(size) > HeapTop THEN MAP_FAILED
          ELSE IF \E r \in S.regions : os < r[2] /\ r[1] < os + Val(size) THEN MAP_FAILED
          ELSE os :
          size \in {size0}})

\* Fault injection: get_mapping without the test for a full registry.
get_mapping_unbounded(S0, size0, os) ==
    Only({Only({
        IF mapping = MAP_FAILED
        THEN [st |-> [S1 EXCEPT !.errno = ENOMEM], ret |-> NULL]
        ELSE IF S.mapping_index > 0 /\ mapping = S.mappings[S.mapping_index - 1][2]
        THEN [st |-> [S1 EXCEPT !.mapping_index = @ - 1,
                                !.mappings[S.mapping_index - 1][2] = @ + Val(size)],
              ret |-> mapping]
        ELSE [st |-> [S1 EXCEPT !.mappings =
                          [i \in DOMAIN @ \cup {S.mapping_index} |->
                               IF i = S.mapping_index THEN <<mapping, mapping + Val(size)>>
                               ELSE @[i]] @@ <<>>],
              ret |-> mapping] :
        S1 \in {[S EXCEPT !.os_calls = Append(@, [size |-> size, res |-> mapping]),
                          !.regions = IF mapping = MAP_FAILED THEN @
                                      ELSE @ \cup {<<mapping, mapping + Val(size)>>}]}}) :
        S \in {S0}, size \in {size0}, mapping \in {mmap(S0, size0, os)}})
\* Fault injection: get_mapping that stores every region in a slot of its own.
get_mapping_unfused(S0, size0, os) ==
    Only({Only({
        IF mapping = MAP_FAILED
        THEN [st |-> [S1 EXCEPT !.errno = ENOMEM], ret |-> NULL]
        ELSE IF S.mapping_index = NumMappings
        THEN [st |-> S1, ret |-> NULL]
        ELSE [st |-> [S1 EXCEPT !.mappings[S.mapping_index] =
                                    <<mapping, mapping + Val(size)>>],
              ret |-> mapping] :
        S1 \in {[S EXCEPT !.os_calls = Append(@, [size |-> size, res |-> mapping]),
                          !.regions = IF mapping = MAP_FAILED THEN @
                                      ELSE @ \cup {<<mapping, mapping + Val(size)>>}]}}) :
        S \in {S0}, size \in {size0}, mapping \in {mmap(S0, size0, os)}})
\* Fault injection: get_mapping without errno = ENOMEM.
get_mapping_silent(S0, size0, os) ==
    Only({Only({
        IF mapping = MAP_FAILED
        THEN [st |-> S1, ret |-> NULL]
        ELSE IF S.mapping_index > 0 /\ mapping = S.mappings[S.mapping_index - 1][2]
        THEN [st |-> [S1 EXCEPT !.mapping_index = @ - 1,
                                !.mappings[S.mapping_index - 1][2] = @ + Val(size)],
              ret |-> mapping]
        ELSE IF S.mapping_index = NumMappings
        THEN [st |-> S1, ret |-> NULL]
        ELSE [st |-> [S1 EXCEPT !.mappings[S.mapping_index] =
                                    <<mapping, mapping + Val(size)>>],
              ret |-> mapping] :
        S1 \in {[S EXCEPT !.os_calls = Append(@, [size |-> size, res |-> mapping]),
                          !.regions = IF mapping = MAP_FAILED THEN @
                                      ELSE @ \cup {<<mapping, mapping + Val(size)>>}]}}) :
        S \in {S0}, size \in {size0}, mapping \in {mmap(S0, size0, os)}})
get_mapping(S0, size0, os) ==
    Only({Only({
        IF mapping = MAP_FAILED
        THEN [st |-> [S1 EXCEPT !.errno = ENOMEM], ret |-> NULL]
        ELSE IF S.mapping_index > 0 /\ mapping = S.mappings[S.mapping_index - 1][2]
        THEN [st |-> [S1 EXCEPT !.mapping_index = @ - 1,
                                !.mappings[S.mapping_index - 1][2] = @ + Val(size)],
              ret |-> mapping]
        ELSE IF S.mapping_index = NumMappings
        THEN [st |-> S1, ret |-> NULL]
        ELSE [st |-> [S1 EXCEPT !.mappings[S.mapping_index] =
                                    <<mapping, mapping + Val(size)>>],
              ret |-> mapping] :
        S1 \in {[S EXCEPT !.os_calls = Append(@, [size |-> size, res |-> mapping]),
                          !.regions = IF mapping = MAP_FAILED THEN @
                                      ELSE @ \cup {<<mapping, mapping + Val(size)>>}]}}) :
        S \in {S0}, size \in {size0}, mapping \in {mmap(S0, size0, os)}})

\* Fault injection: get_block_from_os that counts the mapping before it
\* tests main_block.
get_block_from_os_counting(S0, size0, os) ==
    Only({IF Lt(requested_size, size)
          THEN [st |-> [S EXCEPT !.errno = EINVAL], ret |-> NULL]
          ELSE Only({IF got.ret = NULL
                     THEN [got EXCEPT !.st.mapping_index = (@ + 1) % 65536]
                     ELSE Only({
                         [st |-> adjusted_block(
                                     [set_mapping(S1, got.ret, S1.mapping_index)
                                          EXCEPT !.mapping_index = (@ + 1) % 65536],
                                     got.ret, size),
                          ret |-> got.ret] :
                         S1 \in {update_size(got.st, got.ret, requested_size)}}) :
                     got \in {get_mapping(S, requested_size, os)}}) :
          S \in {S0}, size \in {size0},
          requested_size \in {round_up_power_of_two(size0, MMAP_UNIT)}})
\* Fault injection: get_block_from_os that asks for (size / MMAP_UNIT + 1)
\* units.
get_block_from_os_padded(S0, size0, os) ==
    Only({IF Lt(requested_size, size)
          THEN [st |-> [S EXCEPT !.errno = EINVAL], ret |-> NULL]
          ELSE Only({IF got.ret = NULL THEN got
                     ELSE Only({
                         [st |-> adjusted_block(
                                     [set_mapping(S1, got.ret, S1.mapping_index)
                                          EXCEPT !.mapping_index = (@ + 1) % 65536],
                                     got.ret, size),
                          ret |-> got.ret] :
                         S1 \in {update_size(got.st, got.ret, requested_size)}}) :
                     got \in {get_mapping(S, requested_size, os)}}) :
          S \in {S0}, size \in {size0},
          requested_size \in {Mul(Add(Div(size0, BV(MMAP_UNIT)), BV(1)), BV(MMAP_UNIT))}})
get_block_from_os(S0, size0, os) ==
    Only({IF Lt(requested_size, size)
          THEN [st |-> [S EXCEPT !.errno = EINVAL], ret |-> NULL]
          ELSE Only({IF got.ret = NULL THEN got
                     ELSE Only({
                         [st |-> adjusted_block(
                                     [set_mapping(S1, got.ret, S1.mapping_index)
                                          EXCEPT !.mapping_index = (@ + 1) % 65536],
                                     got.ret, size),
                          ret |-> got.ret] :
                         S1 \in {update_size(got.st, got.ret, requested_size)}}) :
                     got \in {get_mapping(S, requested_size, os)}}) :
          S \in {S0}, size \in {size0},
          requested_size \in {round_up_power_of_two(size0, MMAP_UNIT)}})

\* Fault injection: malloc_rejects without the test for zero, and without the
\* test for overflow.
malloc_rejects_overflow(size, aligned_size) == Lt(aligned_size, size)
malloc_rejects_zero(size, aligned_size) == IsZero(size)
\* The test malloc_ rejects a request by: size == 0 || aligned_size < size.
malloc_rejects(size, aligned_size) == IsZero(size) \/ Lt(aligned_size, size)

malloc_(S0, size0, os, ub) ==
    Only({IF malloc_rejects(size, aligned_size)
          THEN [st |-> [S EXCEPT !.errno = EINVAL], ret |-> NULL]
          ELSE Only({IF hit.st.hung THEN hit
                     ELSE Only({IF header.ret = NULL THEN header
                                ELSE [st |-> set_free(header.st, header.ret, 0),
                                      ret |-> header.ret + METADATA_OFFSET] :
                                header \in {IF hit.ret # NULL THEN hit
                                            ELSE get_block_from_os(hit.st, aligned_size, os)}}) :
                     hit \in {get_block_from_buckets(
                                  IF S.initialized THEN S ELSE initialize_buckets(S),
                                  aligned_size, ub)}}) :
          S \in {S0}, size \in {size0}, aligned_size \in {aligned(size0)}})

\* malloc_ in the two parts that a thread runs with other threads' steps in
\* between.  The first part reads: the loops of get_block_from_buckets and
\* get_block_from_bucket, up to the block they stop at (NULL when no bucket
\* holds a fit).  The second part writes: it unlinks that block and adjusts
\* it, or goes to the page source, and clears the free flag.
found_block(S0, size0, ub) ==
    Only({Only({IF hits = {} THEN NULL
                ELSE first_fit(S, S.buckets[Min(hits)].next, size) :
                hits \in {{i \in first..(NUM_BUCKETS - 1) :
                             /\ S.buckets[i].next # BucketAddr(i)
                             /\ first_fit(S, S.buckets[i].next, size) # NULL}}}) :
          S \in {S0}, size \in {size0}, first \in {bucket_index_from_size(size0, ub)}})
taken_block(S0, block0, size0, os) ==
    Only({Only({IF header.ret = NULL THEN header
                ELSE [st |-> set_free(header.st, header.ret, 0),
                      ret |-> header.ret + METADATA_OFFSET] :
                header \in {IF block # NULL
                            THEN [st |-> adjusted_block(remove_from_bucket(S, block),
                                                        block, size),
                                  ret |-> block]
                            ELSE get_block_from_os(S, size, os)}}) :
          S \in {S0}, block \in {block0}, size \in {size0}})
\* Fault injection: the bound of the first registered mapping in the place of
\* the bound of the block's mapping.
reads_next_header_first(S, block) == block + size_of(S, block) < S.mappings[0][2]
\* free_ reads the header at next_block:
\* next_block < mappings[block->mapping][1].
reads_next_header(S, block) ==
    block + size_of(S, block) < S.mappings[mapping_of(S, block)][2]
\* free_ reads the footer before the block (it does not return at
\* block == mappings[block->mapping][0]).
reads_previous_footer(S, block) == block # S.mappings[mapping_of(S, block)][1]

\* Fault injection: free_ that does not look at the block that follows.
coalesce_next_skipped(S, block) == S
\* free_: the coalescing with the block that follows (S and block are values).
coalesce_next(S, block) ==
    Only({IF reads_next_header(S, block) /\ free_of(S, next_block) = 1
          THEN coalesce(S, block, next_block)
          ELSE S :
          next_block \in {block + size_of(S, block)}})

\* free_: the coalescing with the block that precedes (S and block are values).
\* Fault injection: free_ that does not look at the block that precedes.
coalesce_previous_skipped(S, block) == S
coalesce_previous(S, block) ==
    IF ~reads_previous_footer(S, block) THEN S
    ELSE Only({IF free_of(S, previous_block) = 1 THEN coalesce(S, previous_block, block)
               ELSE S :
               previous_block \in {block - footer_size(S, block - FOOTER_SIZE)}})

\* Fault injection: free_ initializes the buckets before it looks at ptr.
free_initializing(S0, ptr0) ==
    Only({IF ptr = NULL THEN S
          ELSE Only({Only({coalesce_previous(S2, ptr - METADATA_OFFSET) :
                           S2 \in {coalesce_next(S1, ptr - METADATA_OFFSET)}}) :
                     S1 \in {insert_into_buckets(S, ptr - METADATA_OFFSET)}}) :
          S \in {IF S0.initialized THEN S0 ELSE initialize_buckets(S0)}, ptr \in {ptr0}})
free_(S0, ptr0) ==
    Only({IF ptr = NULL THEN S
          ELSE Only({Only({coalesce_previous(S2, ptr - METADATA_OFFSET) :
                           S2 \in {coalesce_next(S1, ptr - METADATA_OFFSET)}}) :
                     S1 \in {insert_into_buckets(S, ptr - METADATA_OFFSET)}}) :
          S \in {S0}, ptr \in {ptr0}})

\* Fault injection: calloc_rejects without the test for overflow.
calloc_rejects_zero(num0, size0) == IsZero(num0)
\* The test calloc_ rejects a request by: num == 0 || size > (size_t) -1 / num.
calloc_rejects(num0, size0) ==
    \E num \in {num0} : IsZero(num) \/ Lt(Div(SIZE_MAX, num), size0)

calloc_(S0, num0, size0, os, ub) ==
    Only({IF calloc_rejects(num, size)
          THEN [st |-> [S EXCEPT !.errno = EINVAL], ret |-> NULL]
          ELSE Only({Only({IF got.ret = NULL THEN got
                           ELSE [st |-> [got.st EXCEPT
                                            !.mem = memset0(@, got.ret, Val(total_size))],
                                 ret |-> got.ret] :
                           got \in {malloc_(S, total_size, os, ub)}}) :
                     total_size \in {Mul(num, size)}}) :
          S \in {S0}, num \in {num0}, size \in {size0}})

\* Fault injection: realloc_ that never resizes a block in place.
realloc_moving(S0, ptr0, size0, os, ub) ==
    Only({IF ptr = NULL \/ IsZero(size) THEN malloc_(free_(S, ptr), size, os, ub)
          ELSE Only({
              Only({IF new.st.hung THEN new
                    ELSE [st |-> free_(IF new.ret = NULL THEN new.st
                                       ELSE [new.st EXCEPT
                                                !.mem = memcpy(@, new.ret, ptr,
                                                               Min({old_size, Val(size)}))],
                                       ptr),
                          ret |-> new.ret] :
                    new \in {malloc_(S, size, os, ub)}}) :
              old_size \in {size_of(S, ptr - METADATA_OFFSET) - METADATA_OFFSET - FOOTER_SIZE}}) :
          S \in {S0}, ptr \in {ptr0}, size \in {size0}})
\* Fault injection: realloc_ that only releases when ptr is NULL or size is 0.
realloc_releasing(S0, ptr0, size0, os, ub) ==
    Only({IF ptr = NULL \/ IsZero(size) THEN [st |-> free_(S, ptr), ret |-> NULL]
          ELSE Only({
              IF Le(size, BV(old_size))
              THEN [st |-> adjusted_block(S, ptr - METADATA_OFFSET, aligned(size)),
                    ret |-> ptr]
              ELSE Only({IF new.st.hung THEN new
                         ELSE [st |-> free_(IF new.ret = NULL THEN new.st
                                            ELSE [new.st EXCEPT
                                                     !.mem = memcpy(@, new.ret, ptr, old_size)],
                                            ptr),
                               ret |-> new.ret] :
                         new \in {malloc_(S, size, os, ub)}}) :
              old_size \in {size_of(S, ptr - METADATA_OFFSET) - METADATA_OFFSET - FOOTER_SIZE}}) :
          S \in {S0}, ptr \in {ptr0}, size \in {size0}})
realloc_(S0, ptr0, size0, os, ub) ==
    Only({IF ptr = NULL \/ IsZero(size) THEN malloc_(free_(S, ptr), size, os, ub)
          ELSE Only({
              IF Le(size, BV(old_size))
              THEN [st |-> adjusted_block(S, ptr - METADATA_OFFSET, aligned(size)),
                    ret |-> ptr]
              ELSE Only({IF new.st.hung THEN new
                         ELSE [st |-> free_(IF new.ret = NULL THEN new.st
                                            ELSE [new.st EXCEPT
                                                     !.mem = memcpy(@, new.ret, ptr, old_size)],
                                            ptr),
                               ret |-> new.ret] :
                         new \in {malloc_(S, size, os, ub)}}) :
              old_size \in {size_of(S, ptr - METADATA_OFFSET) - METADATA_OFFSET - FOOTER_SIZE}}) :
          S \in {S0}, ptr \in {ptr0}, size \in {size0}})

-----------------------------------------------------------------------------
(* The process: the allocator's globals, the page source, and a client     *)
(* that calls the facade with pointers it holds and writes to its blocks.  *)

VARIABLES
    mem,            \* the bytes of the address range [HeapBase, HeapTop)
    buckets,        \* static header_t buckets[NUM_BUCKETS]
    initialized,    \* static bool initialized
    mapping_index,  \* static uint16_t mapping_index
    mappings,       \* static uintptr_t mappings[1 << LOG2_NUM_MAPPINGS][2]
    errno,          \* errno
    regions,        \* the regions mmap has returned, as <<low, high>>
    os_calls,       \* the mmap calls of the last facade call: [size, res]
    hung,           \* the last facade call never returns
    live,           \* pointer |-> requested size, for the blocks the client holds
    call,           \* the last step: [op, ptr, num, size, ret, stale, held]
    ncalls,         \* the number of facade calls so far
    threads,        \* thread |-> [pc, block, ret]: where it is in malloc_
    mutex           \* [used, owner]: the lock about the calls, if one is used

vars == <<mem, buckets, initialized, mapping_index, mappings, errno, regions,
          os_calls, hung, live, call, ncalls, threads, mutex>>

\* The globals every facade function works on.
allocator == <<mem, buckets, initialized, mapping_index, mappings>>

ENONE == "0"
\* The threads that call the facade.
Threads == {1, 2}

State ==
    [mem |-> mem, buckets |-> buckets, initialized |-> initialized,
     mapping_index |-> mapping_index, mappings |-> mappings, errno |-> errno,
     regions |-> regions, os_calls |-> <<>>, hung |-> FALSE]

Install(S) ==
    /\ mem' = S.mem
    /\ buckets' = S.buckets
    /\ initialized' = S.initialized
    /\ mapping_index' = S.mapping_index
    /\ mappings' = S.mappings
    /\ errno' = S.errno
    /\ regions' = S.regions
    /\ os_calls' = S.os_calls
    /\ hung' = S.hung

Init ==
    /\ mem = Zeros
    /\ buckets = [i \in 0..(NUM_BUCKETS - 1) |->
                     [size |-> 0, mapping |-> 0, free |-> 0,
                      next |-> NULL, prev |-> NULL]] @@ <<>>
    /\ initialized = FALSE
    /\ mapping_index = 0
    /\ mappings = [i \in 0..(NumMappings - 1) |-> <<0, 0>>] @@ <<>>
    /\ errno = ENONE
    /\ regions = {}
    /\ os_calls = <<>>
    /\ hung = FALSE
    /\ live = <<>>
    /\ call = [op |-> "none", ptr |-> NULL, num |-> BV(0), size |-> BV(0),
               ret |-> NULL, stale |-> FALSE, held |-> FALSE]
    /\ ncalls = 0
    /\ threads = [t \in Threads |-> [pc |-> "idle", block |-> NULL, ret |-> NULL]]
    /\ mutex = [used |-> FALSE, owner |-> NULL]

\* The arguments the client passes.
MallocSizes == {BV(0), BV(8), BV(37), BV(MMAP_UNIT - 48), SIZE_MAX}
CallocArgs == {<<BV(0), BV(8)>>, <<BV(3), BV(3)>>, <<BV(2), Add(Shl(BV(1), 63), BV(4))>>}
ReallocSizes == {BV(0), BV(5), BV(MMAP_UNIT - 48)}
\* The byte the client writes; it writes it to the first HEADER_SIZE bytes
\* and to the last byte of what it asked for.
ClientByte == 170
ClientPrefix(n) == IF n < HEADER_SIZE THEN n ELSE HEADER_SIZE
ClientWritten(m, p, n) ==
    Store(Store(m, p, [i \in 1..ClientPrefix(n) |-> ClientByte]),
          p + n - 1, <<ClientByte>>)

Give(lv, p, n) == [x \in DOMAIN lv \cup {p} |-> IF x = p THEN n ELSE lv[x]] @@ <<>>
Drop(lv, p) == [x \in DOMAIN lv \ {p} |-> lv[x]] @@ <<>>
\* Some byte of [p, p + n) is not zero.
Dirty(m, p, n) == \E i \in 0..(n - 1) : Byte(m, p + i) # 0

\* A call that never returns is the last call of the process.
CanCall == ~hung

\* The results of a facade call over everything its environment may do.  The
\* environment is consulted by mmap, which os_calls records, and by the
\* undefined shift, which under UBMask sets hung.  A call that, refused by
\* the page source and under UBMask, did not hang never took the shift; one
\* that did neither has consulted nothing.
MallocResults(n) ==
    Only({IF quiet.st.hung
          THEN {quiet} \cup {malloc_(State, n, os, UBZero) : os \in OsChoices}
          ELSE IF quiet.st.os_calls = <<>> THEN {quiet}
          ELSE {quiet} \cup {malloc_(State, n, os, UBMask) : os \in SlotAddrs} :
          quiet \in {malloc_(State, n, MAP_FAILED, UBMask)}})
CallocResults(num, size) ==
    Only({IF quiet.st.hung
          THEN {quiet} \cup {calloc_(State, num, size, os, UBZero) : os \in OsChoices}
          ELSE IF quiet.st.os_calls = <<>> THEN {quiet}
          ELSE {quiet} \cup {calloc_(State, num, size, os, UBMask) : os \in SlotAddrs} :
          quiet \in {calloc_(State, num, size, MAP_FAILED, UBMask)}})
ReallocResults(p, n) ==
    Only({IF quiet.st.hung
          THEN {quiet} \cup {realloc_(State, p, n, os, UBZero) : os \in OsChoices}
          ELSE IF quiet.st.os_calls = <<>> THEN {quiet}
          ELSE {quiet} \cup {realloc_(State, p, n, os, UBMask) : os \in SlotAddrs} :
          quiet \in {realloc_(State, p, n, MAP_FAILED, UBMask)}})

Malloc(n) ==
    /\ CanCall
    /\ \E r \in MallocResults(n) :
           /\ Install(r.st)
           /\ live' = IF r.ret # NULL THEN Give(live, r.ret, Val(n)) ELSE live
           /\ call' = [op |-> "malloc", ptr |-> NULL, num |-> BV(0), size |-> n,
                       ret |-> r.ret, stale |-> FALSE, held |-> r.ret \in DOMAIN live]
    /\ ncalls' = ncalls + 1
    /\ UNCHANGED <<threads, mutex>>

Free(p) ==
    /\ CanCall
    /\ \E S \in {free_(State, p)} : Install(S)
    /\ live' = Drop(live, p)
    /\ call' = [op |-> "free", ptr |-> p, num |-> BV(0), size |-> BV(0),
                ret |-> NULL, stale |-> FALSE, held |-> FALSE]
    /\ ncalls' = ncalls + 1
    /\ UNCHANGED <<threads, mutex>>

Calloc(num, size) ==
    /\ CanCall
    /\ \E r \in CallocResults(num, size) :
           /\ Install(r.st)
           /\ live' = IF r.ret # NULL THEN Give(live, r.ret, Val(Mul(num, size)))
                      ELSE live
           /\ call' = [op |-> "calloc", ptr |-> NULL, num |-> num, size |-> size,
                       ret |-> r.ret,
                       stale |-> r.ret # NULL /\ Dirty(mem, r.ret, Val(Mul(num, size))),
                       held |-> r.ret \in DOMAIN live]
    /\ ncalls' = ncalls + 1
    /\ UNCHANGED <<threads, mutex>>

\* realloc_ releases the block it is given on every path but the one that
\* returns the same pointer.
Realloc(p, n) ==
    /\ CanCall
    /\ \E r \in ReallocResults(p, n) :
           /\ Install(r.st)
           /\ live' = IF r.ret = NULL THEN Drop(live, p)
                      ELSE IF r.ret = p THEN Give(live, p, Val(n))
                      ELSE Give(Drop(live, p), r.ret, Val(n))
           /\ call' = [op |-> "realloc", ptr |-> p, num |-> BV(0), size |-> n,
                       ret |-> r.ret, stale |-> FALSE,
                       held |-> r.ret # p /\ r.ret \in DOMAIN live]
    /\ ncalls' = ncalls + 1
    /\ UNCHANGED <<threads, mutex>>

\* The client writes to a block it holds, inside the bytes it asked for.
ClientWrite(p) ==
    /\ ~hung
    /\ mem' = ClientWritten(mem, p, live[p])
    /\ mem' # mem
    /\ call' = [op |-> "write", ptr |-> p, num |-> BV(0), size |-> BV(0),
                ret |-> NULL, stale |-> FALSE, held |-> FALSE]
    /\ UNCHANGED <<buckets, initialized, mapping_index, mappings, errno, regions,
                   os_calls, hung, live, ncalls, threads, mutex>>

Next ==
    \/ ncalls < MaxCalls /\ \E n \in MallocSizes : Malloc(n)
    \/ ncalls < MaxCalls /\ \E p \in DOMAIN live \cup {NULL} : Free(p)
    \/ ncalls < MaxCalls /\ \E a \in CallocArgs : Calloc(a[1], a[2])
    \/ ncalls < MaxCalls
           /\ \E p \in DOMAIN live \cup {NULL}, n \in ReallocSizes : Realloc(p, n)
    \/ \E p \in DOMAIN live : ClientWrite(p)

Spec == Init /\ [][Next]_vars

\* The requests at the edges of size_t, made of a fresh or nearly fresh
\* allocator: sizes whose rounding or whose sum with the metadata wraps, and
\* counts and sizes whose product wraps.
MaxEdgeCalls == 2
Pow2(k) == Shl(BV(1), k)
EdgeSizes ==
    {Neg(k) : k \in 1..26} \cup {BV(k) : k \in 0..3}
        \cup {Pow2(63), Sub(Pow2(63), BV(1)), Neg(MMAP_UNIT), Pow2(48)}
EdgeArgs ==
    {<<BV(0), BV(0)>>, <<BV(0), SIZE_MAX>>, <<BV(1), BV(0)>>, <<BV(1), BV(9)>>,
     <<BV(1), SIZE_MAX>>, <<SIZE_MAX, BV(1)>>, <<SIZE_MAX, BV(2)>>,
     <<BV(2), Pow2(63)>>, <<BV(2), Sub(Pow2(63), BV(1))>>,
     <<BV(2), Add(Pow2(63), BV(4))>>, <<Add(Pow2(63), BV(4)), BV(2)>>,
     <<Pow2(32), Pow2(32)>>, <<Pow2(32), Sub(Pow2(32), BV(1))>>,
     <<BV(3), Div(SIZE_MAX, BV(3))>>, <<BV(3), Add(Div(SIZE_MAX, BV(3)), BV(1))>>,
     <<Pow2(24), Pow2(40)>>, <<Pow2(24), Sub(Pow2(40), BV(1))>>,
     <<BV(7), BV(5)>>}

NextEdge ==
    /\ ncalls < MaxEdgeCalls
    /\ \/ \E n \in EdgeSizes : Malloc(n)
       \/ \E a \in EdgeArgs : Calloc(a[1], a[2])

SpecEdge == Init /\ [][NextEdge]_vars

\* A cold allocator serves one request, takes the block back and serves one
\* request more.
ColdSizes ==
    {BV(1), BV(8), BV(16), BV(17), BV(1000), BV(1008), BV(MMAP_UNIT - 48),
     BV(MMAP_UNIT - 40), BV(MMAP_UNIT - 16), BV(MMAP_UNIT), BV(2 * MMAP_UNIT + 1)}

NextCold ==
    \/ ncalls = 0 /\ \E n \in ColdSizes : Malloc(n)
    \/ ncalls = 1 /\ call.ret # NULL /\ Free(call.ret)
    \/ ncalls = 2 /\ \E n \in ColdSizes : Malloc(n)

SpecCold == Init /\ [][NextCold]_vars

\* A client that acquires and releases, and never resizes.
MaxPlainCalls == 6
PlainSizes == {BV(8), BV(MMAP_UNIT - 48)}
PlainArgs == {<<BV(3), BV(3)>>}

NextPlain ==
    /\ ncalls < MaxPlainCalls
    /\ \/ \E n \in PlainSizes : Malloc(n)
       \/ \E a \in PlainArgs : Calloc(a[1], a[2])
       \/ \E p \in DOMAIN live : Free(p)

SpecPlain == Init /\ [][NextPlain]_vars


\* bucket_index_from_size by itself, applied to one size after another:
\* sizes of blocks below 1024, the sizes about every power of two from 2^10
\* to 2^48, sizes that are no multiple of MEM_UNIT, and sizes whose top bit
\* is the last bit of size_t.
IndexSizes ==
    {BV(MEM_UNIT * k) : k \in {1, 2, 3, 4, 5, 63, 64, 126, 127}}
        \cup {BV(1), BV(7), BV(9), BV(1023), BV(1025)}
        \cup UNION {{Pow2(k), Add(Pow2(k), BV(MEM_UNIT)), Sub(Pow2(k + 1), BV(MEM_UNIT))} :
                        k \in 10..47}
        \cup {Pow2(48), Sub(Pow2(63), BV(1)), Pow2(63), SIZE_MAX}

\* call.ret is the index returned; the call never returns when the shift by
\* the width of size_t leaves the size as it is.
Index(size) ==
    /\ ~hung
    /\ \E ub \in ShiftOutcomes :
           \E i \in {bucket_index_from_size(size, ub)} :
               /\ call' = [op |-> "index", ptr |-> NULL, num |-> BV(0), size |-> size,
                           ret |-> i, stale |-> FALSE, held |-> FALSE]
               /\ hung' = (i = HANG)
    /\ UNCHANGED <<mem, buckets, initialized, mapping_index, mappings, errno, regions,
                   os_calls, live, ncalls, threads, mutex>>

NextIndex == \E size \in IndexSizes : Index(size)

SpecIndex == Init /\ [][NextIndex]_vars

\* Two threads call malloc_ at once.  A single thread first makes up to
\* MaxSetupCalls calls; then the two threads are started, each to call
\* malloc_(ThreadRequest) once, their calls wrapped in one mutex or in none
\* (the source has no lock).  A thread's call is two steps, Find and Take,
\* and the steps of the two threads interleave in every order the mutex
\* allows.
MaxSetupCalls == 2
ThreadRequest == BV(MEM_UNIT)

Spawn(used) ==
    /\ initialized /\ ~hung
    /\ \A t \in Threads : threads[t].pc = "idle"
    /\ threads' = [t \in Threads |-> [threads[t] EXCEPT !.pc = "call"]]
    /\ mutex' = [used |-> used, owner |-> NULL]
    /\ UNCHANGED <<mem, buckets, initialized, mapping_index, mappings, errno, regions,
                   os_calls, hung, live, call, ncalls>>

\* The thread enters malloc_ (it takes the mutex, when there is one) and
\* runs it up to the block the search stops at.
Find(t) ==
    /\ threads[t].pc = "call"
    /\ mutex.used => mutex.owner = NULL
    /\ threads' = [threads EXCEPT
                       ![t].pc = "found",
                       ![t].block = found_block(State, aligned(ThreadRequest), UBZero)]
    /\ mutex' = IF mutex.used THEN [mutex EXCEPT !.owner = t] ELSE mutex
    /\ UNCHANGED <<mem, buckets, initialized, mapping_index, mappings, errno, regions,
                   os_calls, hung, live, call, ncalls>>

\* The thread runs the rest of malloc_ with the block it found, and returns
\* (it gives the mutex back).
Take(t) ==
    /\ threads[t].pc = "found"
    /\ \E os \in OsChoices :
           \E r \in {taken_block(State, threads[t].block, aligned(ThreadRequest), os)} :
               /\ Install(r.st)
               /\ threads' = [threads EXCEPT ![t].pc = "done", ![t].ret = r.ret]
    /\ mutex' = [mutex EXCEPT !.owner = NULL]
    /\ UNCHANGED <<live, call, ncalls>>

NextThreads ==
    \/ /\ ncalls < MaxSetupCalls
       /\ \A t \in Threads : threads[t].pc = "idle"
       /\ \/ \E n \in PlainSizes : Malloc(n)
          \/ \E p \in DOMAIN live : Free(p)
    \/ \E used \in BOOLEAN : Spawn(used)
    \/ \E t \in Threads : Find(t)
    \/ \E t \in Threads : Take(t)

SpecThreads == Init /\ [][NextThreads]_vars
-----------------------------------------------------------------------------
(* The properties.                                                         *)

\* The block of the pointer p the client holds, and the address after it.
BlockOf(p) == p - METADATA_OFFSET
BlockEnd(p) == BlockOf(p) + size_of(State, BlockOf(p))
\* The step is a call of the facade.
FacadeStep == ncalls' = ncalls + 1
\* The call the last step made returned a pointer to a block.
Returned == call.op \in {"malloc", "calloc", "realloc"} /\ call.ret # NULL

\* C1: the blocks that are allocated are pairwise disjoint (no call hands out
\* a pointer that is held), and each lies inside one registered mapping.
C1_Disjoint ==
    /\ ~call.held
    /\ \A p \in DOMAIN live :
          /\ \E i \in 0..(mapping_index - 1) :
                 mappings[i][1] <= BlockOf(p) /\ BlockEnd(p) <= mappings[i][2]
          /\ \A q \in DOMAIN live \ {p} :
                 BlockEnd(p) <= BlockOf(q) \/ BlockEnd(q) <= BlockOf(p)
\* Three blocks are allocated, in two mappings.
C1_Witness == Cardinality(DOMAIN live) = 3 /\ mapping_index = 2

\* C2: a call of the facade leaves the payload [p, p + size - 16) of every
\* allocated block other than the one passed to it as it was.
Payload(m, p) ==
    Load(m, p, size_of(State, BlockOf(p)) - METADATA_OFFSET - FOOTER_SIZE)
C2_PayloadFrame ==
    [][FacadeStep =>
           \A p \in DOMAIN live \ {call'.ptr} : Payload(mem', p) = Payload(mem, p)]_vars
\* A block was released next to an allocated block that holds client data.
C2_Witness ==
    /\ call.op = "free" /\ call.ptr # NULL
    /\ \E p \in DOMAIN live :
           /\ Byte(mem, p) = ClientByte
           /\ BlockOf(p) = BlockEnd(call.ptr) \/ BlockEnd(p) = BlockOf(call.ptr)

\* The addresses of the blocks that tile [a, hi).
RECURSIVE BlockStarts(_, _)
BlockStarts(a, hi) ==
    IF a >= hi \/ size_of(State, a) = 0 THEN {}
    ELSE {a} \cup BlockStarts(a + size_of(State, a), hi)
\* C3: a pointer returned by malloc_, calloc_ or realloc_ is a multiple of 8,
\* and 8 below it lies the header of a block of a registered mapping, marked
\* allocated.
C3_Aligned ==
    Returned =>
        /\ call.ret % MEM_UNIT = 0
        /\ \E i \in 0..(mapping_index - 1) :
               BlockOf(call.ret) \in BlockStarts(mappings[i][1], mappings[i][2])
        /\ free_of(State, BlockOf(call.ret)) = 0
\* A request of a size that is no multiple of 8 was served from the middle of
\* a mapping.
C3_Witness ==
    /\ Returned
    /\ call.size[1] % MEM_UNIT # 0
    /\ \A i \in 0..(mapping_index - 1) : BlockOf(call.ret) # mappings[i][1]

\* C4: malloc_(0) returns NULL and sets errno to EINVAL.
C4_ZeroSize ==
    call.op = "malloc" /\ IsZero(call.size) => call.ret = NULL /\ errno = EINVAL
\* malloc_(0) was called while blocks were allocated.
C4_Witness == call.op = "malloc" /\ IsZero(call.size) /\ DOMAIN live # {}

\* roundup8(n) + 16 in arithmetic one byte wider than size_t, and whether it
\* fits in size_t.
WideAligned(n) ==
    Add(And(Add(Ext(n, SIZE_BYTES + 1), BVW(MEM_UNIT - 1, SIZE_BYTES + 1)),
            Not(BVW(MEM_UNIT - 1, SIZE_BYTES + 1))),
        BVW(METADATA_OFFSET + FOOTER_SIZE, SIZE_BYTES + 1))
AlignedFits(n) == WideAligned(n)[SIZE_BYTES + 1] = 0
\* C5: malloc_(n) returns NULL with errno = EINVAL for every n for which
\* roundup8(n) + 16 does not fit in 64 bits; the test malloc_ rejects by
\* passes every n >= 1 for which it fits.
C5_Overflow ==
    call.op = "malloc" =>
        /\ ~AlignedFits(call.size) => call.ret = NULL /\ errno = EINVAL /\ ~hung
        /\ AlignedFits(call.size) /\ ~IsZero(call.size)
               => ~malloc_rejects(call.size, aligned(call.size))
\* A request whose sum wraps, but whose rounding does not, was made while a
\* block was allocated.
C5_Witness ==
    /\ call.op = "malloc" /\ ~AlignedFits(call.size)
    /\ Lt(call.size, Neg(MEM_UNIT)) /\ DOMAIN live # {}

\* C6: when malloc_ asks the page source for a region and is refused, it
\* returns NULL with errno = ENOMEM.
C6_Refused ==
    call.op = "malloc" /\ os_calls # <<>> /\ os_calls[Len(os_calls)].res = MAP_FAILED
        => call.ret = NULL /\ errno = ENOMEM
\* The page source refused while blocks were allocated and a free block, too
\* small, was in the buckets.
C6_Witness ==
    /\ call.op = "malloc" /\ os_calls # <<>> /\ os_calls[Len(os_calls)].res = MAP_FAILED
    /\ DOMAIN live # {}
    /\ \E i \in 0..(NUM_BUCKETS - 1) : buckets[i].next # BucketAddr(i)

\* C7: when the registry is full, no free block fits and the page source
\* returns a region that does not start at the last mapping's high bound,
\* malloc_ returns NULL and errno is ENOMEM.
C7_RegistryFull ==
    [][(/\ FacadeStep /\ call'.op = "malloc"
        /\ mapping_index = NumMappings
        /\ os_calls' # <<>>
        /\ os_calls'[1].res \notin {MAP_FAILED, mappings[mapping_index - 1][2]})
           => call'.ret = NULL /\ errno' = ENOMEM]_vars
\* malloc_ returned NULL with the registry full, after the page source had
\* given it a region away from the last mapping, and errno is not ENOMEM.
C7_Witness ==
    /\ call.op = "malloc" /\ call.ret = NULL /\ ~IsZero(call.size)
    /\ mapping_index = NumMappings
    /\ os_calls # <<>>
    /\ os_calls[1].res \notin {MAP_FAILED, mappings[mapping_index - 1][2]}
    /\ errno # ENOMEM

\* C8: free_(NULL) changes nothing of the allocator: the bucket lists, the
\* headers and footers, the mapping table and mapping_index.
C8_FreeNull ==
    [][FacadeStep /\ call'.op = "free" /\ call'.ptr = NULL => UNCHANGED allocator]_vars
\* free_(NULL) was called while blocks were allocated.
C8_Witness == call.op = "free" /\ call.ptr = NULL /\ initialized /\ DOMAIN live # {}

\* C9: the num * size bytes at a pointer calloc_ returned are zero.
C9_Zeroed ==
    call.op = "calloc" /\ call.ret # NULL =>
        \A i \in 0..(Val(Mul(call.num, call.size)) - 1) : Byte(mem, call.ret + i) = 0
\* calloc_ returned a block whose bytes were not all zero when it was called.
C9_Witness == call.op = "calloc" /\ call.ret # NULL /\ call.stale

\* num * size in arithmetic twice as wide as size_t, and whether it fits in
\* size_t.
WideProduct(num, size) == Mul(Ext(num, 2 * SIZE_BYTES), Ext(size, 2 * SIZE_BYTES))
ProductFits(num, size) ==
    \A i \in (SIZE_BYTES + 1)..(2 * SIZE_BYTES) : WideProduct(num, size)[i] = 0
\* C10: calloc_(num, size) returns NULL with errno = EINVAL and leaves the
\* allocator as it was when num is 0 or num * size does not fit in 64 bits;
\* its test rejects no other pair.
C10_Rejects ==
    [][FacadeStep /\ call'.op = "calloc" =>
           /\ IsZero(call'.num) \/ ~ProductFits(call'.num, call'.size)
                  => call'.ret = NULL /\ errno' = EINVAL /\ UNCHANGED allocator
           /\ calloc_rejects(call'.num, call'.size)
                  => IsZero(call'.num) \/ ~ProductFits(call'.num, call'.size)]_vars
\* A product that wraps was asked for while a block was allocated.
C10_Witness ==
    /\ call.op = "calloc" /\ ~IsZero(call.num) /\ ~ProductFits(call.num, call.size)
    /\ DOMAIN live # {}

-----------------------------------------------------------------------------
(* The blocks of a state S (a value): those that tile the registered       *)
(* mappings, walking from header to header, and those a bucket lists.      *)

RECURSIVE BlocksIn(_, _, _)
BlocksIn(S, a, hi) ==
    IF a >= hi \/ size_of(S, a) = 0 THEN {}
    ELSE {a} \cup BlocksIn(S, a + size_of(S, a), hi)
ManagedBlocks(S) ==
    UNION {BlocksIn(S, S.mappings[i][1], S.mappings[i][2]) :
               i \in 0..(S.mapping_index - 1)}
\* The blocks of the list that begins at b, up to the sentinel that ends it.
RECURSIVE ListFrom(_, _, _)
ListFrom(S, b, fuel) ==
    IF IsSentinel(b) \/ fuel = 0 THEN {}
    ELSE {b} \cup ListFrom(S, next_of(S, b), fuel - 1)
\* The block b is in the list of the bucket of its size.
Listed(S, b) ==
    /\ S.initialized
    /\ \E i \in {bucket_index_from_size(BV(size_of(S, b)), UBMask)} :
           /\ i \in 0..(NUM_BUCKETS - 1)
           /\ b \in ListFrom(S, S.buckets[i].next, HeapSize \div MIN_ALLOC)
\* The address b lies in a free block that a bucket lists.
Released(S, b) ==
    \E s \in ManagedBlocks(S) :
        /\ s <= b /\ b < s + size_of(S, s)
        /\ free_of(S, s) = 1
        /\ Listed(S, s)
\* The payload size of the block of p: its size less header word and footer.
OldSize(S, p) == size_of(S, BlockOf(p)) - METADATA_OFFSET - FOOTER_SIZE

\* C11: a successful realloc_(p, b) of a block asked for with a <= b bytes
\* returns a pointer whose first a bytes are those p held; when b exceeds the
\* payload of p's block, the pointer differs from p and p's block is free
\* and in a bucket afterwards.
C11_Preserved ==
    [][(/\ FacadeStep /\ call'.op = "realloc"
        /\ call'.ptr # NULL /\ call'.ret # NULL
        /\ Val(call'.size) >= live[call'.ptr])
           => \E p \in {call'.ptr}, q \in {call'.ret} :
                  /\ Load(mem', q, live[p]) = Load(mem, p, live[p])
                  /\ Val(call'.size) > OldSize(State, p)
                         => q # p /\ Released(State', BlockOf(p))]_vars
\* realloc_ moved a block that held client data.
C11_Witness ==
    /\ call.op = "realloc" /\ call.ptr # NULL
    /\ call.ret \notin {NULL, call.ptr}
    /\ Byte(mem, call.ret) = ClientByte
    /\ Released(State, BlockOf(call.ptr))

\* The block b is in the list of some bucket.
InSomeBucket(S, b) ==
    /\ S.initialized
    /\ \E i \in 0..(NUM_BUCKETS - 1) :
           b \in ListFrom(S, S.buckets[i].next, HeapSize \div MIN_ALLOC)

\* C12: when realloc_(p, n), with n above the payload of p's block, cannot
\* get a new block (the page source refuses), it returns NULL and p's block
\* is as it was: allocated, in no bucket, of the same size, the same payload.
C12_Untouched ==
    [][(/\ FacadeStep /\ call'.op = "realloc" /\ call'.ptr # NULL
        /\ Val(call'.size) > OldSize(State, call'.ptr)
        /\ ~hung'
        /\ os_calls' # <<>> /\ os_calls'[Len(os_calls')].res = MAP_FAILED)
           => \E p \in {call'.ptr} :
                  /\ call'.ret = NULL
                  /\ free_of(State', BlockOf(p)) = 0
                  /\ ~InSomeBucket(State', BlockOf(p))
                  /\ size_of(State', BlockOf(p)) = size_of(State, BlockOf(p))
                  /\ Load(mem', p, OldSize(State, p)) = Load(mem, p, OldSize(State, p))]_vars
\* realloc_ returned NULL because the page source refused, and the block it
\* was given is free and in a bucket.
C12_Witness ==
    /\ call.op = "realloc" /\ call.ptr # NULL /\ ~IsZero(call.size)
    /\ call.ret = NULL /\ ~hung
    /\ os_calls # <<>> /\ os_calls[Len(os_calls)].res = MAP_FAILED
    /\ errno = ENOMEM
    /\ Released(State, BlockOf(call.ptr))

\* C13: realloc_(p, 0) with p not NULL releases p's block and returns NULL,
\* and the call does not set errno.
C13_ZeroSilent ==
    [][(/\ FacadeStep /\ call'.op = "realloc"
        /\ call'.ptr # NULL /\ IsZero(call'.size))
           => /\ call'.ret = NULL
              /\ Released(State', BlockOf(call'.ptr))
              /\ errno' = errno]_vars
\* realloc_(p, 0) released p's block, returned NULL and left EINVAL in errno.
C13_Witness ==
    /\ call.op = "realloc" /\ call.ptr # NULL /\ IsZero(call.size)
    /\ call.ret = NULL
    /\ Released(State, BlockOf(call.ptr))
    /\ errno = EINVAL

\* What the last call left and returned, as the facade operators give it.
Outcome ==
    [st |-> [State EXCEPT !.os_calls = os_calls, !.hung = hung], ret |-> call.ret]

\* C14: realloc_(NULL, n) does what malloc_(n) does: whatever the page
\* source then does, the same return value, errno and allocator state.  (A
\* step of either call ends in an outcome of the other.)
C14_NullIsMalloc ==
    [][(/\ FacadeStep
        /\ \/ call'.op = "malloc"
           \/ call'.op = "realloc" /\ call'.ptr = NULL)
           => /\ Outcome' \in MallocResults(call'.size)
              /\ Outcome' \in ReallocResults(NULL, call'.size)]_vars
\* realloc_(NULL, n) returned a block while other blocks were allocated.
C14_Witness ==
    /\ call.op = "realloc" /\ call.ptr = NULL /\ call.ret # NULL
    /\ Cardinality(DOMAIN live) >= 2

\* C15: realloc_(p, n) with 0 < n <= block size - 16 returns p, does not
\* call the page source, leaves the block allocated (and in no bucket), and
\* leaves the first n bytes at p as they were, whether or not it carves a
\* free tail off the block.
C15_InPlace ==
    [][(/\ FacadeStep /\ call'.op = "realloc"
        /\ call'.ptr # NULL /\ ~IsZero(call'.size)
        /\ Val(call'.size) <= OldSize(State, call'.ptr))
           => \E p \in {call'.ptr}, n \in {Val(call'.size)} :
                  /\ call'.ret = p
                  /\ os_calls' = <<>> /\ regions' = regions
                  /\ free_of(State', BlockOf(p)) = 0
                  /\ ~InSomeBucket(State', BlockOf(p))
                  /\ BlockOf(p) \in ManagedBlocks(State')
                  /\ Load(mem', p, n) = Load(mem, p, n)]_vars
\* realloc_ shrank a block in place: the block holds client data, and the
\* free block after it, in a bucket, still holds bytes the client wrote.
C15_Witness ==
    /\ call.op = "realloc" /\ call.ptr # NULL /\ call.ret = call.ptr
    /\ Byte(mem, call.ret) = ClientByte
    /\ \E t \in {BlockEnd(call.ret)} :
           /\ t \in ManagedBlocks(State)
           /\ free_of(State, t) = 1 /\ Listed(State, t)
           /\ \E a \in (t + HEADER_SIZE)..(t + size_of(State, t) - 1) :
                  Byte(mem, a) = ClientByte

\* The free blocks of the mappings, and the blocks the buckets list.
FreeBlocks(S) == {b \in ManagedBlocks(S) : free_of(S, b) = 1}
AllListed(S) ==
    IF ~S.initialized THEN {}
    ELSE UNION {ListFrom(S, S.buckets[i].next, HeapSize \div MIN_ALLOC) :
                    i \in 0..(NUM_BUCKETS - 1)}
\* t is the one free block, of the given size, and the bucket of its size
\* lists it and no bucket lists another.
OneFreeBlock(S, t, size) ==
    /\ FreeBlocks(S) = {t}
    /\ size_of(S, t) = size
    /\ footer_size(S, t + size - FOOTER_SIZE) = size
    /\ Listed(S, t)
    /\ AllListed(S) = {t}
\* The first call, on the cold allocator, was malloc_(8) and returned a block.
ColdAcquire8 == ncalls = 1 /\ call.op = "malloc" /\ call.size = BV(8) /\ call.ret # NULL

\* C16 (as the code has it): on a cold allocator malloc_(8) returns a block
\* of MIN_ALLOC = 32 bytes and leaves exactly one free block, of
\* MMAP_UNIT - 32 bytes, right after it, in the bucket of its size.
C16_ColdAcquire ==
    ColdAcquire8 =>
        /\ size_of(State, BlockOf(call.ret)) = MIN_ALLOC
        /\ OneFreeBlock(State, BlockEnd(call.ret), MMAP_UNIT - MIN_ALLOC)
\* malloc_(8) on the cold allocator returned the first block of the mapping
\* it obtained.
C16_Witness == ColdAcquire8 /\ BlockOf(call.ret) = mappings[0][1] /\ mapping_index = 1
\* C16 (as stated): the block is of 24 bytes and the free block of
\* MMAP_UNIT - 24 bytes.
C16_AsStated ==
    ColdAcquire8 =>
        /\ size_of(State, BlockOf(call.ret)) = 8 + METADATA_OFFSET + FOOTER_SIZE
        /\ OneFreeBlock(State, BlockEnd(call.ret),
                        MMAP_UNIT - (8 + METADATA_OFFSET + FOOTER_SIZE))

\* The pointers a cold allocator can return.
ColdPointers == {a + METADATA_OFFSET : a \in SlotAddrs}
\* C17: on a cold allocator, when p = malloc_(n) succeeds, free_(p) leaves
\* the mapping as one free block, and malloc_(n) then returns p again
\* without a call of the page source, which was called once in all.
C17_SamePointer ==
    \A n \in ColdSizes, p \in ColdPointers :
        [](ncalls = 1 /\ call.op = "malloc" /\ call.size = n /\ call.ret = p
             => /\ [](ncalls = 2 /\ call.op = "free" /\ call.ptr = p
                         => OneFreeBlock(State, mappings[0][1],
                                         mappings[0][2] - mappings[0][1]))
                /\ [](ncalls = 3 /\ call.op = "malloc" /\ call.size = n
                         => /\ call.ret = p
                            /\ os_calls = <<>>
                            /\ Cardinality(regions) = 1))
\* The third call returned a pointer after the first block had been split
\* off its mapping, released, and the mapping made one block again.
C17_Witness ==
    /\ ncalls = 3 /\ call.op = "malloc" /\ call.ret \in ColdPointers
    /\ os_calls = <<>> /\ Cardinality(regions) = 1
    /\ FreeBlocks(State) # {}

\* The mapping i of S is one free block: its tiling is the one block at its
\* low bound, of size hi - lo in header and footer, free and in its bucket.
WholeFree(S, i) ==
    \E lo \in {S.mappings[i][1]}, hi \in {S.mappings[i][2]} :
        /\ BlocksIn(S, lo, hi) = {lo}
        /\ size_of(S, lo) = hi - lo
        /\ footer_size(S, hi - FOOTER_SIZE) = hi - lo
        /\ free_of(S, lo) = 1
        /\ Listed(S, lo)

\* C18: after malloc_, calloc_ and free_ calls (no realloc_) that released
\* every pointer returned, in whatever order, every registered mapping is
\* one free block of size hi - lo, and the buckets list these blocks only.
C18_FullCoalescence ==
    live = <<>> =>
        /\ \A i \in 0..(mapping_index - 1) : WholeFree(State, i)
        /\ AllListed(State) = {mappings[i][1] : i \in 0..(mapping_index - 1)}
\* Two blocks of a mapping fused from two regions were released.
C18_Witness ==
    /\ live = <<>> /\ call.op = "free" /\ call.ptr # NULL
    /\ mapping_index = 1
    /\ mappings[0][2] - mappings[0][1] = 2 * MMAP_UNIT

\* C19: after every facade call, no two blocks that follow one another in a
\* mapping are both free.
C19_NoAdjacentFree ==
    \A i \in 0..(mapping_index - 1) :
        \A b \in BlocksIn(State, mappings[i][1], mappings[i][2]) :
            \E t \in {b + size_of(State, b)} :
                t < mappings[i][2] => ~(free_of(State, b) = 1 /\ free_of(State, t) = 1)
\* realloc_ shrank a block in place, and the free block it carved off is
\* followed by another free block.
C19_Witness ==
    /\ call.op = "realloc" /\ call.ptr # NULL /\ call.ret = call.ptr
    /\ \E t \in {BlockEnd(call.ret)} :
           /\ t \in FreeBlocks(State)
           /\ t + size_of(State, t) \in FreeBlocks(State)

\* C20: after every facade call, every block of every mapping has the size
\* of its header in its footer, a size that is a multiple of 8 and at least
\* MIN_ALLOC, and the blocks tile the mapping up to its high bound.
C20_BlockSizes ==
    \A i \in 0..(mapping_index - 1) :
        \E B \in {BlocksIn(State, mappings[i][1], mappings[i][2])} :
            /\ \A b \in B :
                   \E size \in {size_of(State, b)} :
                       /\ footer_size(State, b + size - FOOTER_SIZE) = size
                       /\ size % MEM_UNIT = 0
                       /\ size >= MIN_ALLOC
            /\ mappings[i][2] \in {b + size_of(State, b) : b \in B}
\* A mapping holds three blocks or more after a block was released or
\* resized.
C20_Witness ==
    /\ call.op \in {"free", "realloc"} /\ call.ptr # NULL
    /\ \E i \in 0..(mapping_index - 1) :
           Cardinality(BlocksIn(State, mappings[i][1], mappings[i][2])) >= 3

\* The blocks of the list that begins at b, in the order of the next links.
RECURSIVE ListSeq(_, _, _)
ListSeq(S, b, fuel) ==
    IF IsSentinel(b) \/ fuel = 0 THEN <<>>
    ELSE <<b>> \o ListSeq(S, next_of(S, b), fuel - 1)
BucketList(S, i) == ListSeq(S, S.buckets[i].next, HeapSize \div MIN_ALLOC)
\* The pairs <<i, b>> of a bucket and a block that its list holds.
Linked(S) ==
    IF ~S.initialized THEN {}
    ELSE UNION {{<<i, b>> : b \in ListFrom(S, S.buckets[i].next, HeapSize \div MIN_ALLOC)} :
                    i \in 0..(NUM_BUCKETS - 1)}

\* C21: in every state a block of a mapping has its free flag set iff one
\* bucket list, and no other, holds it, and that bucket is the one
\* bucket_index_from_size gives for the block's size; a block whose pointer
\* the client holds has its free flag clear and is in no bucket list.
C21_FreeIffListed ==
    \E B \in {ManagedBlocks(State)}, L \in {Linked(State)} :
        /\ \A b \in B :
               \E I \in {{l[1] : l \in {x \in L : x[2] = b}}} :
                   IF free_of(State, b) = 1
                   THEN I = {bucket_index_from_size(BV(size_of(State, b)), UBZero)}
                   ELSE I = {}
        /\ \A p \in DOMAIN live :
               /\ BlockOf(p) \in B
               /\ free_of(State, BlockOf(p)) = 0
               /\ \A l \in L : l[2] # BlockOf(p)
\* After a release or a resize, free blocks are in two buckets or more while
\* the client holds a block.
C21_Witness ==
    /\ call.op \in {"free", "realloc"} /\ call.ptr # NULL
    /\ live # <<>>
    /\ Cardinality({bucket_index_from_size(BV(size_of(State, b)), UBZero) :
                        b \in FreeBlocks(State)}) >= 2

\* C22: the list of every bucket, read from its sentinel by the next links,
\* comes back to that sentinel, holds no block of size 0 (the sentinel, of
\* size 0, is in it once), and is in non-decreasing order of block size.
C22_SortedLists ==
    initialized =>
        \A i \in 0..(NUM_BUCKETS - 1) :
            \E l \in {BucketList(State, i)} :
                /\ buckets[i].size = 0
                /\ next_of(State, IF l = <<>> THEN BucketAddr(i) ELSE l[Len(l)])
                       = BucketAddr(i)
                /\ \A k \in 1..Len(l) : size_of(State, l[k]) # 0
                /\ \A k \in 1..(Len(l) - 1) :
                       size_of(State, l[k]) <= size_of(State, l[k + 1])
\* A bucket lists two blocks of different sizes.
C22_Witness ==
    /\ initialized
    /\ \E i \in 0..(NUM_BUCKETS - 1) :
           \E l \in {BucketList(State, i)} :
               Len(l) >= 2 /\ size_of(State, l[1]) < size_of(State, l[Len(l)])

\* The sum of the sizes of the blocks of B.
RECURSIVE SumSizes(_, _)
SumSizes(S, B) ==
    IF B = {} THEN 0
    ELSE Only({size_of(S, b) + SumSizes(S, B \ {b}) : b \in {CHOOSE x \in B : TRUE}})

\* C23: the blocks of mapping m tile [lo(m), hi(m)): stepping from lo(m) by
\* the header sizes comes to hi(m), the sizes add up to hi(m) - lo(m), and
\* every block stepped over carries m in its header; also after a fusion.
C23_Tiling ==
    \A m \in 0..(mapping_index - 1) :
        \E B \in {BlocksIn(State, mappings[m][1], mappings[m][2])} :
            /\ mappings[m][2] \in {b + size_of(State, b) : b \in B}
            /\ SumSizes(State, B) = mappings[m][2] - mappings[m][1]
            /\ \A b \in B : mapping_of(State, b) = m
\* The second mapping registered is a fusion of two regions and holds three
\* blocks or more.
C23_Witness ==
    /\ mapping_index = 2
    /\ mappings[1][2] - mappings[1][1] = 2 * MMAP_UNIT
    /\ Cardinality(BlocksIn(State, mappings[1][1], mappings[1][2])) >= 3

\* The position of the top bit of v: the k with 2^k <= v < 2^(k + 1).
FloorLog2(v) ==
    CHOOSE k \in 0..(8 * SIZE_BYTES - 1) :
        Le(Pow2(k), v) /\ (k = 8 * SIZE_BYTES - 1 \/ Lt(v, Pow2(k + 1)))
\* s is the size of a block: a multiple of 8 from 32 to below 2^48.
IsBlockSize(s) ==
    /\ Shl(Shr(s, 3), 3) = s
    /\ Le(BV(MIN_ALLOC), s)
    /\ Lt(s, Pow2(8 * SIZE_FIELD_BYTES))

\* C24: bucket_index_from_size is non-decreasing in the size (of two
\* applications, the one to the larger size returns no smaller index), and
\* for the size s of a block (a multiple of 8, 32 <= s < 2^48) it returns
\* s / 8 when s < 1024 and 121 + floor(log2(s / 8)) otherwise, in 4..165.
C24_ClassOfSize ==
    [][(call'.op = "index" /\ ~hung')
           => \E s \in {call'.size}, i \in {call'.ret} :
                  /\ IsBlockSize(s)
                         => /\ i = IF Lt(s, BV(1024)) THEN Val(s) \div 8
                                   ELSE 121 + FloorLog2(Shr(s, 3))
                            /\ i \in 4..165
                  /\ (call.op = "index" /\ Le(call.size, s)) => call.ret <= i]_vars
\* The function was applied to 2^47 + 8 after it was applied to a size below
\* 1024, and returned the index of the last class.
C24_Witness ==
    /\ call.op = "index" /\ call.size = Add(Pow2(47), BV(8))
    /\ call.ret = NUM_BUCKETS - 1

\* C25: for every size s > 0, bucket_index_from_size(s) is an index i of a
\* class, in 0..165, and s is in the range of that class: s = 8 * i when
\* i <= 127, and 8 * 2^(i - 121) <= s < 8 * 2^(i - 120) when i >= 128.
C25_ClassHoldsSize ==
    (call.op = "index" /\ ~IsZero(call.size))
        => /\ ~hung
           /\ call.ret \in 0..(NUM_BUCKETS - 1)
           /\ \E s \in {call.size}, i \in {call.ret} :
                  IF i <= 127 THEN s = BV(8 * i)
                  ELSE /\ Le(Shl(BV(8), i - 121), s)
                       /\ Lt(s, Shl(BV(8), i - 120))
\* The function was applied to 2^63: it does not return, or it returns an
\* index past the last bucket.
C25_Witness ==
    /\ call.op = "index" /\ call.size = Pow2(63)
    /\ hung \/ call.ret >= NUM_BUCKETS

\* The free blocks that hold a block of `size` bytes (size is a size_t).
Adequate(S, size) == {b \in FreeBlocks(S) : Le(size, BV(size_of(S, b)))}

\* C27: when some free block has a size >= aligned(n), with aligned(n) below
\* 2^48 (n > 0, and the sum that aligns n does not wrap), malloc_(n) takes a free block, without a call of the page source,
\* whose size is the least among the free blocks of size >= aligned(n) of
\* all the buckets.
C27_BestFit ==
    [][(/\ FacadeStep /\ call'.op = "malloc"
        /\ ~malloc_rejects(call'.size, aligned(call'.size))
        /\ IsBlockSize(aligned(call'.size)))
           => \E A \in {Adequate(State, aligned(call'.size))} :
                  A # {}
                      => /\ call'.ret # NULL
                         /\ os_calls' = <<>>
                         /\ BlockOf(call'.ret) \in A
                         /\ \A b \in A :
                                size_of(State, BlockOf(call'.ret)) <= size_of(State, b)]_vars
\* malloc_ took, whole, the free block that ended a mapping although a
\* larger free block was in a bucket.
C27_Witness ==
    /\ call.op = "malloc" /\ call.ret # NULL /\ os_calls = <<>>
    /\ \E m \in 0..(mapping_index - 1) : BlockEnd(call.ret) = mappings[m][2]
    /\ \E b \in FreeBlocks(State) :
           size_of(State, b) > size_of(State, BlockOf(call.ret))

\* The place of the block x in the list l.
PosIn(l, x) == CHOOSE k \in 1..Len(l) : l[k] = x
\* The list of bucket i before the buckets are initialized is empty.
ListOf(S, i) == IF S.initialized THEN BucketList(S, i) ELSE <<>>
\* The block x, with its size, is in the list l of the state S.
Member(S, l, x, size) ==
    \E k \in 1..Len(l) : l[k] = x /\ size_of(S, x) = size

\* C28: ties go to the oldest.  A call leaves the blocks that stay in a list
\* in the order they had, and links a block that it adds to a list after
\* every block that was there of a size <= its own; and the block a call
\* takes from a list is the first of its size in it, the one that has been
\* in the list longest.
C28_OldestFirst ==
    [][FacadeStep
           => \A i \in 0..(NUM_BUCKETS - 1) :
                  \E old \in {ListOf(State, i)}, new \in {ListOf(State', i)} :
                      /\ \A j, k \in 1..Len(new) :
                             (/\ Member(State, old, new[j], size_of(State', new[j]))
                              /\ size_of(State', new[j]) <= size_of(State', new[k])
                              /\ j # k)
                                 => IF Member(State, old, new[k], size_of(State', new[k]))
                                    THEN (j < k) = (PosIn(old, new[j]) < PosIn(old, new[k]))
                                    ELSE j < k
                      /\ \A k \in 1..Len(old) :
                             (call'.ret # NULL /\ old[k] = BlockOf(call'.ret))
                                 => \A j \in 1..(k - 1) :
                                        size_of(State, old[j]) # size_of(State, old[k])]_vars
\* A call took a block from a list that held another of the same size, and
\* the block left in the list is the one at the lower address.
C28_Witness ==
    /\ call.op \in {"malloc", "calloc"} /\ call.ret # NULL /\ os_calls = <<>>
    /\ \E b \in FreeBlocks(State) :
           /\ size_of(State, b) = size_of(State, BlockOf(call.ret))
           /\ b < BlockOf(call.ret)
           /\ Listed(State, b)
    /\ \E m \in 0..(mapping_index - 1) : BlockEnd(call.ret) = mappings[m][2]

\* C29: malloc_ calls the page source at most once, and only when no free
\* block has a size >= aligned(n); it asks for the least positive multiple
\* of MMAP_UNIT that is >= aligned(n).
C29_PageRequests ==
    [][(FacadeStep /\ call'.op = "malloc")
           => /\ Len(os_calls') <= 1
              /\ os_calls' # <<>>
                     => \E a \in {Val(aligned(call'.size))} :
                            /\ Adequate(State, aligned(call'.size)) = {}
                            /\ a > 0
                            /\ os_calls'[1].size
                                   = BV(((a + MMAP_UNIT - 1) \div MMAP_UNIT) * MMAP_UNIT)]_vars
\* malloc_ asked the page source for two units or more while a free block,
\* too small, was in a bucket.
C29_Witness ==
    /\ call.op = "malloc" /\ ncalls = 3
    /\ Len(os_calls) = 1 /\ Val(os_calls[1].size) >= 2 * MMAP_UNIT
    /\ call.ret # NULL
    /\ FreeBlocks(State) # {}

SameBlock ==
    \/ /\ \A t \in Threads : threads[t].pc = "done" /\ threads[t].ret # NULL
       /\ threads[1].ret = threads[2].ret
    \/ \E t \in Threads :
           threads[t].pc = "done" /\ threads[t].ret # NULL /\ threads[t].ret \in DOMAIN live
\* Every bucket list is a ring: from the sentinel the next links come back
\* to it, and the prev link of every node is the node before it.
RingLists ==
    initialized =>
        \A i \in 0..(NUM_BUCKETS - 1) :
            \E l \in {<<BucketAddr(i)>> \o BucketList(State, i)} :
                /\ next_of(State, l[Len(l)]) = BucketAddr(i)
                /\ prev_of(State, BucketAddr(i)) = l[Len(l)]
                /\ \A k \in 2..Len(l) : prev_of(State, l[k]) = l[k - 1]

\* C26: when every call of the facade is wrapped in one mutex, no
\* interleaving of two threads' calls comes to a state where both calls have
\* returned the same block or a bucket list is no ring; without the mutex
\* (C26_Witness) such a state is reached.
C26_MutexExcludes == mutex.used => ~SameBlock /\ RingLists
\* Without a mutex, the two calls have returned the same block.
C26_Witness ==
    /\ ~mutex.used
    /\ \A t \in Threads : threads[t].pc = "done" /\ threads[t].ret # NULL
    /\ threads[1].ret = threads[2].ret

\* C32: a malloc_ call that returns NULL (size 0, a size whose alignment
\* wraps, a refusal of the page source, a full registry) leaves the memory of
\* the blocks (headers, footers, links), the mapping table and mapping_index
\* as they were, and the buckets as they were or, on the first call that
\* passes the argument test, as initialize_buckets leaves them.
C32_FailureKeepsState ==
    [][(FacadeStep /\ call'.op = "malloc" /\ call'.ret = NULL /\ ~hung')
           => /\ mem' = mem
              /\ mappings' = mappings
              /\ mapping_index' = mapping_index
              /\ \/ buckets' = buckets /\ initialized' = initialized
                 \/ /\ ~initialized /\ initialized'
                    /\ ~malloc_rejects(call'.size, aligned(call'.size))
                    /\ buckets' = initialize_buckets(State).buckets]_vars
\* malloc_ returned NULL with the registry full, after the page source had
\* given it a region, while free blocks were in the buckets.
C32_Witness ==
    /\ call.op = "malloc" /\ call.ret = NULL
    /\ mapping_index = NumMappings
    /\ os_calls # <<>> /\ os_calls[1].res # MAP_FAILED
    /\ FreeBlocks(State) # {}

\* C33: the block behind a pointer that malloc_(n) returned has a size s
\* with aligned(n) <= s < aligned(n) + 32, for aligned(n) the larger of 32
\* and n rounded up to 8 plus 16; so s - 16 >= n bytes lie from the
\* pointer to the footer.
C33_BlockFitsRequest ==
    (call.op = "malloc" /\ call.ret # NULL)
        => \E n \in {Val(call.size)}, s \in {size_of(State, BlockOf(call.ret))} :
               \E a \in {IF ((n + 7) \div 8) * 8 + 16 > 32
                         THEN ((n + 7) \div 8) * 8 + 16 ELSE 32} :
                   /\ a <= s /\ s < a + 32
                   /\ s - METADATA_OFFSET - FOOTER_SIZE >= n
\* malloc_ took from a bucket, whole, a block 24 bytes larger than the
\* aligned request.
C33_Witness ==
    /\ call.op = "malloc" /\ call.ret # NULL /\ os_calls = <<>>
    /\ size_of(State, BlockOf(call.ret)) = Val(aligned(call.size)) + 24

\* C35: the registry only grows.  Across every step mapping_index does not
\* decrease and is at most the capacity; the low bound of a registered
\* mapping does not change, its high bound does not decrease, and the high
\* bound of a mapping other than the last registered does not change.
C35_AppendOnly ==
    [][/\ mapping_index' >= mapping_index
       /\ mapping_index' <= NumMappings
       /\ \A m \in 0..(mapping_index - 1) :
              /\ mappings'[m][1] = mappings[m][1]
              /\ mappings'[m][2] >= mappings[m][2]
              /\ m < mapping_index - 1 => mappings'[m][2] = mappings[m][2]]_vars
\* The first mapping grew by a fusion while it was the last, and a second
\* mapping was registered after it.
C35_Witness ==
    /\ mapping_index = 2
    /\ mappings[0][2] - mappings[0][1] = 2 * MMAP_UNIT
    /\ mappings[1] = <<HeapBase, HeapBase + MMAP_UNIT>>

\* The call is one that calls malloc_, and the size it passes.
CallsMalloc(c) ==
    \/ c.op = "malloc"
    \/ c.op = "calloc" /\ ~calloc_rejects(c.num, c.size)
    \/ c.op = "realloc" /\ (c.ptr = NULL \/ IsZero(c.size))
MallocArg(c) == IF c.op = "calloc" THEN Mul(c.num, c.size) ELSE c.size
\* The free blocks that the step leaves free, at their size, stay listed.
ListsKept ==
    \A b \in FreeBlocks(State) :
        (b \in FreeBlocks(State') /\ size_of(State', b) = size_of(State, b))
            => Listed(State', b)

C37_Terminates == ~hung
\* malloc_(2^63) does not return.
C37_Witness ==
    /\ hung
    /\ call.op = "malloc" /\ call.size = Pow2(63) /\ call.ret = NULL

\* C39: once the buckets are initialized, every bucket is a ring in both
\* directions: for every node x of its list, the sentinel included,
\* x.next.prev = x and x.prev.next = x, and the next links from the sentinel
\* come back to that sentinel.
C39_Rings ==
    initialized =>
        \A i \in 0..(NUM_BUCKETS - 1) :
            \E l \in {<<BucketAddr(i)>> \o BucketList(State, i)} :
                /\ next_of(State, l[Len(l)]) = BucketAddr(i)
                /\ \A k \in 1..Len(l) :
                       /\ prev_of(State, next_of(State, l[k])) = l[k]
                       /\ next_of(State, prev_of(State, l[k])) = l[k]
\* A list holds two blocks or more while another holds a block.
C39_Witness ==
    /\ initialized /\ ncalls = MaxCalls
    /\ \E i, j \in 0..(NUM_BUCKETS - 1) :
           /\ i # j
           /\ Len(BucketList(State, i)) >= 2
           /\ Len(BucketList(State, j)) >= 1

\* The registered mapping whose range holds the address a.
RowOf(S, a) ==
    CHOOSE m \in 0..(S.mapping_index - 1) : S.mappings[m][1] <= a /\ a < S.mappings[m][2]
\* The blocks of the tiling of S that begin in [lo, hi).
BlocksWithin(S, lo, hi) == {x \in ManagedBlocks(S) : lo <= x /\ x < hi}

Layout(S) == {<<b, size_of(S, b), free_of(S, b)>> : b \in ManagedBlocks(S)}

\* C34: in a state reached by malloc_, calloc_ and free_ alone, when
\* malloc_(n) returns a pointer p without a call of the page source,
\* free_(p) right after it gives back the set of (address, size, free flag)
\* triples of the blocks that was there before the malloc_.
C34_FreeUndoesMalloc ==
    [][(FacadeStep /\ call'.op = "malloc" /\ call'.ret # NULL /\ os_calls' = <<>>)
           => Layout(free_(State', call'.ret)) = Layout(State)]_vars
\* malloc_ split a free block, with allocated blocks at lower and at higher
\* addresses, and the call budget leaves room for the free_.
C34_Witness ==
    /\ call.op = "malloc" /\ call.ret # NULL /\ os_calls = <<>>
    /\ ncalls < MaxPlainCalls
    /\ Cardinality(DOMAIN live) >= 3
    /\ BlockEnd(call.ret) \in FreeBlocks(State)
    /\ \E p \in DOMAIN live : BlockOf(p) > BlockEnd(call.ret)
    /\ \E p \in DOMAIN live : BlockOf(p) < BlockOf(call.ret)

\* The other revision of insert_into_buckets, with the fast path for the
\* buckets of one size.
\* for (; true; pre_insertion = pre_insertion->next): where the loop breaks.
RECURSIVE walk_pre_insertion(_, _, _)
walk_pre_insertion(S, pre_insertion0, size) ==
    Only({IF next_block_size = 0 \/ next_block_size > size THEN pre_insertion
          ELSE walk_pre_insertion(S, next_of(S, pre_insertion), size) :
          pre_insertion \in {pre_insertion0},
          next_block_size \in {size_of(S, next_of(S, pre_insertion0))}})
\* Fault injection: the fast path taken for every size below 4096.
pre_insertion_wide(S, inserted, bucket) ==
    IF size_of(S, inserted) < 4096 THEN prev_of(S, bucket)
    ELSE walk_pre_insertion(S, bucket, size_of(S, inserted))
\* if (inserted->size < 1024) pre_insertion = pre_insertion->prev; else the
\* loop.
pre_insertion(S, inserted, bucket) ==
    IF size_of(S, inserted) < 1024 THEN prev_of(S, bucket)
    ELSE walk_pre_insertion(S, bucket, size_of(S, inserted))
insert_into_buckets_fast(S0, inserted0) ==
    Only({Only({Only({Only({Only({Only({
        set_free(S4, inserted, 1) :
        S4 \in {set_prev(S3, next_of(S3, inserted), inserted)}}) :
        S3 \in {set_next(S2, pre, inserted)}}) :
        S2 \in {set_next(S1, inserted, next_of(S1, pre))}}) :
        S1 \in {set_prev(S, inserted, pre)}}) :
        pre \in {pre_insertion(S, inserted,
                     BucketAddr(bucket_index_from_size(BV(size_of(S, inserted)), UBZero)))}}) :
        S \in {S0}, inserted \in {inserted0}})

\* C38: the insertion with the fast path (a block of size < 1024 is linked
\* before the sentinel) gives the list that the insertion that walks gives.
\* The two are compared on the block that a free_ releases, in the state of
\* the call, and on every free block of the state after a call, taken out
\* of its list and inserted again.
C38_FastPathSameList ==
    [][FacadeStep
           => /\ (call'.op = "free" /\ call'.ptr # NULL)
                  => insert_into_buckets_fast(State, BlockOf(call'.ptr))
                         = insert_into_buckets(State, BlockOf(call'.ptr))
              /\ initialized'
                  => \A x \in FreeBlocks(State') :
                         \E S2 \in {remove_from_bucket(State', x)} :
                             insert_into_buckets_fast(S2, x) = insert_into_buckets(S2, x)]_vars
\* free_ released a block of 32 bytes while the bucket of that size held
\* two blocks: the list of that bucket now holds three.
C38_Witness ==
    /\ call.op = "free" /\ call.ptr # NULL /\ initialized
    /\ Len(BucketList(State, MIN_ALLOC \div MEM_UNIT)) >= 3
    /\ BucketList(State, MIN_ALLOC \div MEM_UNIT)
           [Len(BucketList(State, MIN_ALLOC \div MEM_UNIT))] = BlockOf(call.ptr)

====
